---------------------------- MODULE Spec2Model ----------------------------
(***************************************************************************)
(* Incremental crawl-and-merge engine of the four job scrapers             *)
(* (ge, jobup, jobroom, talent).                                           *)
(*                                                                         *)
(* Data representation.                                                    *)
(*   - A job row (a Python dict) is a function from field names to values; *)
(*     a key that is absent, None or (for "id") not an int is an absent    *)
(*     key here, since the code treats the three alike                     *)
(*     (row.get(k) or "", isinstance(row.get("id"), int)).                 *)
(*   - A URL is a sequence of characters, so that str.strip() is computed. *)
(*   - A posting_date is a sequence of day numbers: <<d>> is the ISO text  *)
(*     of day d, <<>> the empty string, any longer sequence a text that    *)
(*     datetime.fromisoformat rejects.                                     *)
(*   - A title or description is a sequence of lower-case words.           *)
(*   - A dict that is iterated (merged) is a sequence of [k, v] entries in *)
(*     insertion order.                                                    *)
(***************************************************************************)
EXTENDS Integers, Sequences, FiniteSets, TLC

VARIABLES
    \* ---- merge_jobs_by_url called on its own (SpecMerge) ----
    m_scraper,      \* which module's merge_jobs_by_url
    m_filter_lang,  \* talent's filter_lang argument
    m_current,      \* argument current
    m_fresh,        \* argument fresh (its rows are mutated by the call)
    m_out,          \* result of the first call
    m_again,        \* result of merge(m_out, m_fresh)
    m_stage,        \* "args" | "merged" | "remerged"
    \* ---- within_days called on its own (SpecWithin) ----
    w_row,          \* the row whose posting_date is passed
    w_max_days,     \* argument max_days: <<>> for None, else <<n>>
    w_result,       \* the value returned
    w_stage,        \* "args" | "returned"
    \* ---- two runs of ge's main() on one dataset file (SpecRace) ----
    r_mode,         \* "serial": one run at a time; "concurrent": any interleaving
    r_dataset,      \* the dataset file the two runs share
    r_seen,         \* the seen_urls of the state file the two runs share
    r_pc,           \* per run: "start" | "crawl" | "save_state" | "save_json" | "done"
    r_loc,          \* per run: main()'s locals
    \* ---- a run on files of any content (SpecLoad) ----
    l_dataset_file, \* the dataset file the run finds
    l_state_file,   \* the state file the run finds
    l_stage,        \* "files" | "loaded"
    \* ---- extract_detail_links and what main() makes of its links (SpecLinks) ----
    k_scraper,      \* ge, jobup or talent
    k_page,         \* the href attributes of a listing page, in document order
    k_known,        \* known_urls
    k_links,        \* result of extract_detail_links
    k_fresh,        \* fresh_jobs: the rows detail-fetched
    k_merged,       \* the dataset merged from the stored and the fetched rows
    k_stage,        \* "page" | "links" | "merged"
    \* ---- the relevance filters called on their own (SpecLang) ----
    g_row,          \* the row whose title, description (and language_codes) are read
    g_french,       \* result of jobroom.is_french_job
    g_allowed,      \* result of talent._is_allowed_language
    g_stage,        \* "args" | "returned"
    \* ---- ge: the row main() builds from detail page, card and RSS entry (SpecResolve) ----
    f_detail,       \* what the detail page shows: h1 text and date, each or none
    f_item,         \* what the listing card shows: the link text
    f_rss,          \* the RSS item of the url: <<>> when the feed has none, else <<item>>
    f_max_days,     \* max_days: <<>> for None, else <<n>>
    f_row,          \* the row built: <<>> before the step, else <<row>>
    f_kept,         \* the row was appended to fresh_jobs
    f_stage,        \* "args" | "built"
    \* ---- professions_pipeline.main() (SpecPipe) ----
    p_args,         \* the command line: force_all, retry_errors, checkpoint_every
    p_file,         \* the JSON file the pipeline reads and writes (input = output)
    p_payload,      \* payload: the list loaded, its rows mutated in place
    p_i,            \* the loop's position in payload
    p_pc,           \* "idle" | "loop" | "done"
    p_run,          \* pipeline runs started
    p_did,          \* per row of this run: "" | "skipped" | "blank" | "named" | "empty" | "failed"
    p_prev,         \* p_did of the run before
    p_start,        \* the payload as this run loaded it
    p_writes,       \* writes of the output file in this run
    \* ---- the files and the clock ----
    scraper,        \* the scraper that owns the dataset: its main() is the run
    args,           \* the command line of the runs on this dataset
    dataset,        \* the dataset file (output_json): a list of rows
    state_seen,     \* the state file's seen_urls
    today,          \* date.today(), a day number
    runs,           \* runs started so far
    \* ---- main()'s locals ----
    pc,             \* "idle" | "page1" | "pages" | "details" | "save_json" | "aborted"
    existing_jobs,
    known_urls,
    links,          \* ge, jobup, talent: discovered links, first occurrence only
    all_page_urls,  \* jobroom: every url of every scanned row
    known_streak,   \* known_streak / seen_streak
    page,           \* the page the loop fetches next
    total_pages,    \* jobup: <<n>> when page 1 announces a page count, else <<>>
    total_api_known,\* jobroom: <<n>> once the API reported a total, else <<>>
    detail_items,
    detail_idx,
    fresh_jobs,
    merged,
    \* ---- history (not program state) ----
    h_fetch_failed, \* a listing page fetch failed in this run
    h_fetched,      \* urls detail-fetched (jobroom: added to fresh_jobs) in this run
    h_discovered,   \* urls an earlier run found on a listing page it scanned
    h_pages,        \* listing pages requested in this run, failed requests included
    h_empty_page,   \* a listing page of this run was fetched and held no link (no row)
    h_detail_failed,\* urls whose fetch_detail raised in this run
    h_max_id,       \* the largest id a run wrote to the dataset file so far
    h_shrunk,       \* the last dataset write made the file shorter
    h_lost,         \* new urls of earlier finished runs whose fetch_detail raised or
                    \* which --max-jobs cut from the detail list
    h_streak        \* "none" | "hit" | "late": see StreakPoint

mergeVars == <<m_scraper, m_filter_lang, m_current, m_fresh, m_out, m_again, m_stage>>
withinVars == <<w_row, w_max_days, w_result, w_stage>>
raceVars == <<r_mode, r_dataset, r_seen, r_pc, r_loc>>
loadVars == <<l_dataset_file, l_state_file, l_stage>>
linkVars == <<k_scraper, k_page, k_known, k_links, k_fresh, k_merged, k_stage>>
langVars == <<g_row, g_french, g_allowed, g_stage>>
resolveVars == <<f_detail, f_item, f_rss, f_max_days, f_row, f_kept, f_stage>>
pipeVars == <<p_args, p_file, p_payload, p_i, p_pc, p_run, p_did, p_prev, p_start, p_writes>>
extraVars == <<resolveVars, pipeVars>>
sideVars == <<mergeVars, withinVars, raceVars, loadVars, linkVars, langVars, extraVars>>

(***************************************************************************)
(* Bounds and domains                                                      *)
(***************************************************************************)
MaxCurrent == 2     \* longest current list handed to merge in SpecMerge
MaxFresh == 2       \* longest fresh list handed to merge in SpecMerge
MaxRuns == 3        \* runs on one dataset
MaxPageLen == 2     \* links on one listing page
MaxSourcePages == 2 \* listing pages the source serves with content
MaxToday == 2       \* days the clock advances across the runs

Scrapers == {"ge", "jobup", "jobroom", "talent"}

Max(S) == CHOOSE x \in S : \A y \in S : y <= x

SeqsUpTo(S, n) == UNION {[1..k -> S] : k \in 0..n}

(***************************************************************************)
(* Row helpers                                                             *)
(***************************************************************************)
\* row[f] = v (a dict store)
With(row, f, v) == [k \in DOMAIN row \cup {f} |-> IF k = f THEN v ELSE row[k]]

\* isinstance(row.get("id"), int)
HasIntId(row) == "id" \in DOMAIN row

RECURSIVE LStrip(_)
LStrip(s) == IF s # <<>> /\ Head(s) = " " THEN LStrip(Tail(s)) ELSE s

RECURSIVE RStrip(_)
RStrip(s) == IF s # <<>> /\ s[Len(s)] = " " THEN RStrip(SubSeq(s, 1, Len(s) - 1)) ELSE s

\* str.strip()
Strip(s) == RStrip(LStrip(s))

\* str(row.get("url") or "").strip()
UrlKey(row) == IF "url" \in DOMAIN row THEN Strip(row.url) ELSE <<>>

(***************************************************************************)
(* Relevance filters (talent._is_allowed_language, jobroom.is_french_job)  *)
(***************************************************************************)
TALENT_FR_HINTS ==
    {"avec", "pour", "poste", "vous", "nous", "experience", "expérience", "equipe", "équipe",
     "mission", "competences", "compétences", "formation", "travail", "emploi", "profil",
     "francais", "français", "responsable", "gestion", "assurer", "recherche", "candidat"}
TALENT_EN_HINTS == {"with", "for", "you", "team", "experience", "job", "position", "skills",
                    "work", "english", "required"}
TALENT_DE_HINTS == {"mit", "für", "sie", "erfahrung", "stelle", "aufgaben", "kenntnisse",
                    "arbeit", "deutsch"}
TALENT_IT_HINTS == {"con", "per", "lavoro", "posizione", "esperienza", "richiesto",
                    "competenze", "squadra"}

JOBROOM_FR_HINTS ==
    {"avec", "pour", "poste", "vous", "nous", "experience", "equipe", "mission", "competences",
     "formation", "travail", "emploi", "profil", "francais", "responsable", "gestion",
     "assurer", "recherche", "candidat"}
JOBROOM_EN_HINTS == {"with", "for", "you", "team", "experience", "job", "position", "skills",
                     "work", "english"}
JOBROOM_DE_HINTS == {"mit", "fur", "sie", "erfahrung", "stelle", "aufgaben", "kenntnisse",
                     "arbeit", "deutsch"}
JOBROOM_IT_HINTS == {"con", "per", "lavoro", "posizione", "esperienza", "richiesto",
                     "competenze", "squadra"}

\* set(re.findall(...)) over title + " " + description: the words of both texts
Words(row, f) == IF f \in DOMAIN row THEN {row[f][i] : i \in 1..Len(row[f])} ELSE {}

\* talent._is_allowed_language(row.get("title"), row.get("description"))
_is_allowed_language(row) ==
    LET tokens == Words(row, "title") \cup Words(row, "description")
        fr == Cardinality(tokens \cap TALENT_FR_HINTS)
        en == Cardinality(tokens \cap TALENT_EN_HINTS)
        de == Cardinality(tokens \cap TALENT_DE_HINTS)
        it == Cardinality(tokens \cap TALENT_IT_HINTS)
    IN  (fr >= 2 \/ en >= 2) /\ Max({fr, en}) >= Max({de, it})

\* jobroom.is_french_job(row)
is_french_job(row) ==
    \/ "language_codes" \in DOMAIN row /\ "fr" \in row.language_codes
    \/ LET tokens == Words(row, "title") \cup Words(row, "description")
           fr == Cardinality(tokens \cap JOBROOM_FR_HINTS)
           en == Cardinality(tokens \cap JOBROOM_EN_HINTS)
           de == Cardinality(tokens \cap JOBROOM_DE_HINTS)
           it == Cardinality(tokens \cap JOBROOM_IT_HINTS)
       IN  fr >= 2 /\ fr >= Max({en, de, it})

(***************************************************************************)
(* merge_jobs_by_url                                                       *)
(***************************************************************************)
\* merged.get(url): the index of the entry, 0 when there is none
DictIndex(d, k) ==
    IF \E i \in 1..Len(d) : d[i].k = k
    THEN CHOOSE i \in 1..Len(d) : d[i].k = k
    ELSE 0

\* mutant of DictPut: a list in place of a dict, every store appends
AppendPut(d, k, v) == Append(d, [k |-> k, v |-> v])

\* merged[url] = row: a new key is appended, a known key keeps its place
DictPut(d, k, v) ==
    LET i == DictIndex(d, k)
    IN  IF i = 0 THEN Append(d, [k |-> k, v |-> v]) ELSE [d EXCEPT ![i].v = v]

\* mutant of InitialMaxId: the first loop forgotten
ZeroInitialMaxId(current) == 0

\* first loop: the largest integer id of current, 0 when there is none
InitialMaxId(current) ==
    Max({0} \cup {current[i].id : i \in {j \in 1..Len(current) : HasIntId(current[j])}})

\* the rows merge leaves out: no url, or (talent, filter_lang) a rejected language
MergeSkips(s, filter_lang, row) ==
    \/ UrlKey(row) = <<>>
    \/ s = "talent" /\ filter_lang /\ ~_is_allowed_language(row)

\* mutant of SeedCurrent: the rows of current are not carried into the map
NoSeedCurrent(s, filter_lang, current, mg) == mg

\* second loop: seed the map from current
RECURSIVE SeedCurrent(_, _, _, _)
SeedCurrent(s, filter_lang, current, mg) ==
    IF current = <<>> THEN mg
    ELSE LET row == Head(current)
         IN  SeedCurrent(s, filter_lang, Tail(current),
                 IF MergeSkips(s, filter_lang, row) THEN mg
                 ELSE DictPut(mg, UrlKey(row), row))

\* st = [merged, max_id, fresh_done (the fresh rows as the loop leaves them)]
\* mutant of OverlayRow: a fresh row of a url that has an id is dropped, the old row stays
KeepExistingOverlayRow(s, filter_lang, row, st) ==
    IF MergeSkips(s, filter_lang, row)
    THEN [st EXCEPT !.fresh_done = Append(@, row)]
    ELSE LET url == UrlKey(row)
             i == DictIndex(st.merged, url)
             carry == i # 0 /\ HasIntId(st.merged[i].v)
             new == With(row, "id", IF carry THEN st.merged[i].v.id ELSE st.max_id + 1)
         IN  [merged |-> IF carry THEN st.merged ELSE DictPut(st.merged, url, new),
              max_id |-> IF carry THEN st.max_id ELSE st.max_id + 1,
              fresh_done |-> Append(st.fresh_done, new)]

\* mutant of OverlayRow: every fresh row gets a new id, a known url included
NoCarryOverlayRow(s, filter_lang, row, st) ==
    IF MergeSkips(s, filter_lang, row)
    THEN [st EXCEPT !.fresh_done = Append(@, row)]
    ELSE LET new == With(row, "id", st.max_id + 1)
         IN  [merged |-> DictPut(st.merged, UrlKey(row), new),
              max_id |-> st.max_id + 1,
              fresh_done |-> Append(st.fresh_done, new)]

\* mutant of OverlayRow: max_id is not advanced when a new id is given
NoAdvanceOverlayRow(s, filter_lang, row, st) ==
    IF MergeSkips(s, filter_lang, row)
    THEN [st EXCEPT !.fresh_done = Append(@, row)]
    ELSE LET url == UrlKey(row)
             i == DictIndex(st.merged, url)
             carry == i # 0 /\ HasIntId(st.merged[i].v)
             new == With(row, "id", IF carry THEN st.merged[i].v.id ELSE st.max_id + 1)
         IN  [merged |-> DictPut(st.merged, url, new),
              max_id |-> st.max_id,
              fresh_done |-> Append(st.fresh_done, new)]

\* third loop, one fresh row: carry the id of the map's row, else max_id + 1
OverlayRow(s, filter_lang, row, st) ==
    IF MergeSkips(s, filter_lang, row)
    THEN [st EXCEPT !.fresh_done = Append(@, row)]
    ELSE LET url == UrlKey(row)
             i == DictIndex(st.merged, url)
             carry == i # 0 /\ HasIntId(st.merged[i].v)
             max_id == IF carry THEN st.max_id ELSE st.max_id + 1
             new == With(row, "id", IF carry THEN st.merged[i].v.id ELSE max_id)
         IN  [merged |-> DictPut(st.merged, url, new),
              max_id |-> max_id,
              fresh_done |-> Append(st.fresh_done, new)]

RECURSIVE OverlayFresh(_, _, _, _)
OverlayFresh(s, filter_lang, fresh, st) ==
    IF fresh = <<>> THEN st
    ELSE OverlayFresh(s, filter_lang, Tail(fresh),
                      OverlayRow(s, filter_lang, Head(fresh), st))

\* row.setdefault("source", <module's name>); jobup's merge has no such line
SetDefaultSource(s, row) ==
    IF s = "jobup" \/ "source" \in DOMAIN row THEN row ELSE With(row, "source", s)

\* mutant of Backfill: the map is walked from its last entry to its first
RECURSIVE BackfillBackwards(_, _, _, _)
BackfillBackwards(s, mg, i, max_id) ==
    IF i > Len(mg) THEN mg
    ELSE LET k == Len(mg) + 1 - i
             row == SetDefaultSource(s, mg[k].v)
         IN  IF HasIntId(row)
             THEN BackfillBackwards(s, [mg EXCEPT ![k].v = row], i + 1, max_id)
             ELSE BackfillBackwards(s, [mg EXCEPT ![k].v = With(row, "id", max_id + 1)],
                                    i + 1, max_id + 1)

\* fourth loop: every row of the map gets a source and, if it has none, an id
RECURSIVE Backfill(_, _, _, _)
Backfill(s, mg, i, max_id) ==
    IF i > Len(mg) THEN mg
    ELSE LET row == SetDefaultSource(s, mg[i].v)
         IN  IF HasIntId(row)
             THEN Backfill(s, [mg EXCEPT ![i].v = row], i + 1, max_id)
             ELSE Backfill(s, [mg EXCEPT ![i].v = With(row, "id", max_id + 1)],
                           i + 1, max_id + 1)

\* mutant of SortByIdDesc: the values of the map are returned as they are
UnsortedRows(rows, sorted) == rows

\* list.sort(key=id, reverse=True): stable, rows of equal id keep their order
RECURSIVE InsertById(_, _)
InsertById(sorted, row) ==
    IF sorted = <<>> THEN <<row>>
    ELSE IF Head(sorted).id >= row.id THEN <<Head(sorted)>> \o InsertById(Tail(sorted), row)
         ELSE <<row>> \o sorted

RECURSIVE SortByIdDesc(_, _)
SortByIdDesc(rows, sorted) ==
    IF rows = <<>> THEN sorted
    ELSE SortByIdDesc(Tail(rows), InsertById(sorted, Head(rows)))

\* the whole call: [out |-> the returned list, fresh |-> fresh as the call leaves it]
MergeCall(s, filter_lang, current, fresh) ==
    LET seeded == SeedCurrent(s, filter_lang, current, <<>>)
        st == OverlayFresh(s, filter_lang, fresh,
                           [merged |-> seeded, max_id |-> InitialMaxId(current),
                            fresh_done |-> <<>>])
        filled == Backfill(s, st.merged, 1, st.max_id)
    IN  [out |-> SortByIdDesc([i \in 1..Len(filled) |-> filled[i].v], <<>>),
         fresh |-> st.fresh_done]

merge_jobs_by_url(s, filter_lang, current, fresh) ==
    MergeCall(s, filter_lang, current, fresh).out

\* texts of a posting: French or German words, an old and a new title
TextOld == [title |-> <<"old">>, description |-> <<"poste", "equipe">>]
TextOldDe == [title |-> <<"old">>, description |-> <<"stelle", "arbeit">>]
TextNew == [title |-> <<"new">>, description |-> <<"poste", "equipe">>]
TextNewDe == [title |-> <<"new">>, description |-> <<"stelle", "arbeit">>]


(***************************************************************************)
(* The run: main() of a scraper                                            *)
(***************************************************************************)
MaxExisting == 3     \* the longest legacy dataset SpecLegacy merges into
MaxPayload == 2      \* rows of the file the professions pipeline reads
MaxNames == 2        \* names in one answer of the classifier
MaxPipeRuns == 2     \* pipeline runs on one file
MaxWindow == 2       \* the widest --days window SpecWithin passes
MaxDynPages == 200   \* max_dyn / max_dynamic_pages when --max-pages is 0

\* jobroom asks for pages of 25 rows; a full page here is one of MaxPageLen rows
PageSize == MaxPageLen

Urls == {<<"a">>, <<"b">>}

Range(f) == {f[i] : i \in DOMAIN f}

\* a listing page as extract_detail_links returns it: no url twice
Pages == {p \in SeqsUpTo(Urls, MaxPageLen) : \A i, j \in 1..Len(p) : p[i] = p[j] => i = j}

\* what the source can serve as page n (1-based): it runs dry after MaxSourcePages
PageOutcomes(n) == IF n <= MaxSourcePages THEN Pages ELSE {<<>>}

\* jobup.extract_total_pages(html): <<>> for None
TotalPagesChoices == {<<>>} \cup {<<n>> : n \in 1..(MaxSourcePages + 1)}

\* jobroom: totalElements of a response, <<>> when it is no int
TotalApiChoices == {<<>>, <<PageSize + 1>>}

\* the command lines: --max-pages, --max-jobs, --days, --stop-after-seen and
\* (talent, jobroom) not --allow-non-french; jobup's legacy --incremental
\* (master file) is not given
ArgsChoices(s) ==
    {[max_pages |-> 0, max_jobs |-> 0, days |-> 1, stop_after_seen |-> T,
      filter_lang |-> s \in {"talent", "jobroom"}] : T \in {1, 2}}
    \cup {[max_pages |-> 1, max_jobs |-> 1, days |-> 0, stop_after_seen |-> 0,
           filter_lang |-> FALSE]}

\* posting dates a source can show on the day of the fetch: today, two days ago, none
PostingChoices == {<<today>>, <<today - 2>>, <<>>}

\* texts of a fetched posting; only talent and jobroom read them
TextChoices(s) == IF s \in {"talent", "jobroom"} THEN {TextNew, TextNewDe} ELSE {TextNew}

\* the row a successful fetch_detail (jobroom: normalize) yields for url
\* (jobup.fetch_detail sets no "source")
FetchedRow(s, url, pd, text) ==
    LET base == With(text, "url", url)
        dated == IF pd = <<>> THEN base ELSE With(base, "posting_date", pd)
    IN  IF s = "jobup" THEN dated ELSE With(dated, "source", s)

\* max_days = args.days if args.days and args.days > 0 else None  (<<>> for None)
MaxDaysOf(a) == IF a.days > 0 THEN <<a.days>> ELSE <<>>

\* mutant of within_days: the age has no lower bound
NoLowerBoundWithinDays(row, max_days) ==
    IF max_days = <<>> THEN TRUE
    ELSE IF "posting_date" \notin DOMAIN row \/ row.posting_date = <<>> THEN FALSE
    ELSE IF Len(row.posting_date) # 1 THEN FALSE
    ELSE today - row.posting_date[1] <= max_days[1]

\* within_days(row.get("posting_date"), max_days)
within_days(row, max_days) ==
    IF max_days = <<>> THEN TRUE
    ELSE IF "posting_date" \notin DOMAIN row \/ row.posting_date = <<>> THEN FALSE
    ELSE IF Len(row.posting_date) # 1 THEN FALSE
    ELSE LET age == today - row.posting_date[1]
         IN  0 <= age /\ age <= max_days[1]

\* [x for x in seq if keep(x)]
RECURSIVE SelectUnknown(_, _)
SelectUnknown(seq, known) ==
    IF seq = <<>> THEN <<>>
    ELSE IF Head(seq) \in known THEN SelectUnknown(Tail(seq), known)
         ELSE <<Head(seq)>> \o SelectUnknown(Tail(seq), known)

RECURSIVE SelectWithin(_, _)
SelectWithin(rows, max_days) ==
    IF rows = <<>> THEN <<>>
    ELSE IF within_days(Head(rows), max_days)
         THEN <<Head(rows)>> \o SelectWithin(Tail(rows), max_days)
         ELSE SelectWithin(Tail(rows), max_days)

\* seq[:n]
Prefix(seq, n) == SubSeq(seq, 1, IF n < Len(seq) THEN n ELSE Len(seq))

\* known_urls: the urls of the loaded dataset and the loaded seen_urls
KnownUrls(jobs, seen) ==
    ({UrlKey(jobs[i]) : i \in 1..Len(jobs)} \cup {Strip(u) : u \in seen}) \ {<<>>}

\* page 1 of ge, jobup and talent: every link not yet in seen_links is collected
RECURSIVE ScanFirst(_, _)
ScanFirst(items, ls) ==
    IF items = <<>> THEN ls
    ELSE ScanFirst(Tail(items), IF Head(items) \in Range(ls) THEN ls ELSE Append(ls, Head(items)))

\* pages 2.. of ge, jobup and talent: st = [links, known_streak]; the scan of
\* the page ends (break) when the streak reaches stop_after_seen
RECURSIVE ScanLater(_, _, _, _)
ScanLater(items, st, known, stop_after_seen) ==
    IF items = <<>> THEN st
    ELSE LET u == Head(items)
         IN  IF u \in Range(st.links)
             THEN ScanLater(Tail(items), st, known, stop_after_seen)
             ELSE LET ls == Append(st.links, u)
                  IN  IF stop_after_seen > 0
                      THEN IF u \in known
                           THEN IF st.known_streak + 1 >= stop_after_seen
                                THEN [links |-> ls, known_streak |-> st.known_streak + 1]
                                ELSE ScanLater(Tail(items),
                                               [links |-> ls, known_streak |-> st.known_streak + 1],
                                               known, stop_after_seen)
                           ELSE ScanLater(Tail(items), [links |-> ls, known_streak |-> 0],
                                          known, stop_after_seen)
                      ELSE ScanLater(Tail(items), [links |-> ls, known_streak |-> st.known_streak],
                                     known, stop_after_seen)

\* a page of jobroom: st = [all_page_urls, seen_streak, fresh_jobs]; the scan
\* ends (break) when the streak reaches stop_after_seen or fresh_jobs --max-jobs
RECURSIVE ScanRows(_, _, _, _)
ScanRows(rows, st, known, a) ==
    IF rows = <<>> THEN st
    ELSE LET row == Head(rows)
             url == UrlKey(row)
             all == Append(st.all_page_urls, url)
             counted == a.stop_after_seen > 0
             streak == IF ~counted THEN st.seen_streak
                       ELSE IF url \in known THEN st.seen_streak + 1 ELSE 0
             st1 == [st EXCEPT !.all_page_urls = all, !.seen_streak = streak]
         IN  IF url = <<>> THEN ScanRows(Tail(rows), st, known, a)
             ELSE IF counted /\ url \in known /\ streak >= a.stop_after_seen
                  THEN st1
             ELSE IF \/ url \in known
                     \/ a.filter_lang /\ ~is_french_job(row)
                     \/ ~within_days(row, MaxDaysOf(a))
                  THEN ScanRows(Tail(rows), st1, known, a)
             ELSE LET st2 == [st1 EXCEPT !.fresh_jobs = Append(@, row)]
                  IN  IF a.max_jobs > 0 /\ Len(st2.fresh_jobs) >= a.max_jobs
                      THEN st2
                      ELSE ScanRows(Tail(rows), st2, known, a)

\* mutant of StreakStop: a threshold of 0 is not taken as "disabled"
UnguardedStreakStop(a, streak) == streak >= a.stop_after_seen

\* the test after the scan of a page:
\* args.stop_after_seen > 0 and known_streak >= args.stop_after_seen
StreakStop(a, streak) == a.stop_after_seen > 0 /\ streak >= a.stop_after_seen

\* mutant of TotalReached: the reported total is not read
TotalNeverReached(tk, p) == FALSE

\* jobroom: isinstance(total_api_known, int) and (page + 1) * 25 >= total_api_known
TotalReached(tk, p) == tk # <<>> /\ (p + 1) * PageSize >= tk[1]

\* mutant of PageLimit: --max-pages is not read
UnboundedPageLimit(s, a, tp) ==
    IF s = "jobup" /\ tp # <<>> THEN tp[1] ELSE MaxDynPages

\* the end of the page loop of ge, jobup and talent: range(2, limit + 1)
PageLimit(s, a, tp) ==
    IF s = "jobup" /\ tp # <<>> THEN tp[1]
    ELSE IF a.max_pages > 0 THEN a.max_pages ELSE MaxDynPages

\* jobup: total_pages = min(total_pages, args.max_pages) when both are given
CappedTotalPages(a, tp) ==
    IF tp # <<>> /\ a.max_pages > 0 /\ a.max_pages < tp[1] THEN <<a.max_pages>> ELSE tp

\* mutant of DetailItems: the links in known_urls are not left out
KnownDetailItems(ls, known, a) ==
    IF a.max_jobs > 0 THEN Prefix(ls, a.max_jobs) ELSE ls

\* mutant of DetailItems: --max-jobs is not applied
UncutDetailItems(ls, known, a) == SelectUnknown(ls, known)

\* detail_items: the links not in known_urls, cut to --max-jobs
DetailItems(ls, known, a) ==
    LET new == SelectUnknown(ls, known)
    IN  IF a.max_jobs > 0 THEN Prefix(new, a.max_jobs) ELSE new

\* mutant of SeenNow: only the urls of the listing pages of this run are kept
ListedOnlySeenNow(s, known, ls, all, rows) ==
    IF s = "jobroom" THEN Range(all) ELSE Range(ls)

\* mutant of SeenNow: only the urls of the merged rows are kept
MergedOnlySeenNow(s, known, ls, all, rows) ==
    {UrlKey(rows[i]) : i \in 1..Len(rows)} \ {<<>>}

\* mutant of SeenNow: the urls of the listing pages are left out
KnownAndMergedSeenNow(s, known, ls, all, rows) ==
    known \cup ({UrlKey(rows[i]) : i \in 1..Len(rows)} \ {<<>>})

\* seen_now = known_urls | urls of links (jobroom: all_page_urls) | urls of merged
SeenNow(s, known, ls, all, rows) ==
    known \cup (IF s = "jobroom" THEN Range(all) ELSE Range(ls))
          \cup ({UrlKey(rows[i]) : i \in 1..Len(rows)} \ {<<>>})

\* the least position of page p at which T consecutive known urls have been
\* scanned, 0 when there is none or the stop is disabled
StreakPoint(p, known, T) ==
    LET pts == {i \in T..Len(p) : \A j \in (i - T + 1)..i : p[j] \in known}
    IN  IF T = 0 \/ pts = {} THEN 0 ELSE CHOOSE i \in pts : \A k \in pts : i <= k

\* h_streak after the scan of page p, of which `taken` says which positions the
\* scan collected: "hit" when the streak point was reached and nothing after it
\* was collected, "late" when a later link was collected or a page was fetched
\* after a hit
StreakAfter(p, taken) ==
    LET sp == StreakPoint(p, known_urls, args.stop_after_seen)
    IN  IF h_streak # "none" THEN "late"
        ELSE IF sp = 0 THEN "none"
        ELSE IF \E j \in (sp + 1)..Len(p) : j \in taken THEN "late"
        ELSE "hit"

(***************************************************************************)
(* Actions of the run                                                      *)
(***************************************************************************)
runVars == <<scraper, args, dataset, state_seen, today, runs, pc, existing_jobs, known_urls,
             links, all_page_urls, known_streak, page, total_pages, total_api_known,
             detail_items, detail_idx, fresh_jobs, merged, h_fetch_failed, h_fetched,
             h_discovered, h_max_id, h_shrunk, h_lost, h_streak,
             h_pages, h_empty_page, h_detail_failed>>

vars == <<sideVars, runVars>>

files == <<dataset, state_seen>>
config == <<scraper, args>>
history == <<h_discovered, h_max_id, h_shrunk, h_lost>>

\* the values of main()'s locals outside a run
NoLocals ==
    [existing_jobs |-> <<>>, known_urls |-> {}, links |-> <<>>, all_page_urls |-> <<>>,
     known_streak |-> 0, page |-> 0, total_pages |-> <<>>, total_api_known |-> <<>>,
     detail_items |-> <<>>, detail_idx |-> 0, fresh_jobs |-> <<>>, merged |-> <<>>]

ResetLocals ==
    /\ existing_jobs' = NoLocals.existing_jobs
    /\ known_urls' = NoLocals.known_urls
    /\ links' = NoLocals.links
    /\ all_page_urls' = NoLocals.all_page_urls
    /\ known_streak' = NoLocals.known_streak
    /\ page' = NoLocals.page
    /\ total_pages' = NoLocals.total_pages
    /\ total_api_known' = NoLocals.total_api_known
    /\ detail_items' = NoLocals.detail_items
    /\ detail_idx' = NoLocals.detail_idx
    /\ fresh_jobs' = NoLocals.fresh_jobs
    /\ merged' = NoLocals.merged

\* SpecMerge leaves the run alone, Spec leaves SpecMerge's variables alone
MergeQuiet ==
    /\ m_scraper = "ge" /\ m_filter_lang = FALSE /\ m_current = <<>> /\ m_fresh = <<>>
    /\ m_out = <<>> /\ m_again = <<>> /\ m_stage = "off"

RunQuietOn(d) ==
    /\ scraper = "ge"
    /\ args = [max_pages |-> 0, max_jobs |-> 0, days |-> 0, stop_after_seen |-> 0,
               filter_lang |-> FALSE]
    /\ dataset = <<>> /\ state_seen = {} /\ today = d /\ runs = 0 /\ pc = "off"
    /\ existing_jobs = NoLocals.existing_jobs /\ known_urls = NoLocals.known_urls
    /\ links = NoLocals.links /\ all_page_urls = NoLocals.all_page_urls
    /\ known_streak = NoLocals.known_streak /\ page = NoLocals.page
    /\ total_pages = NoLocals.total_pages /\ total_api_known = NoLocals.total_api_known
    /\ detail_items = NoLocals.detail_items /\ detail_idx = NoLocals.detail_idx
    /\ fresh_jobs = NoLocals.fresh_jobs /\ merged = NoLocals.merged
    /\ h_fetch_failed = FALSE /\ h_fetched = {} /\ h_discovered = {} /\ h_lost = {} /\ h_max_id = 0
    /\ h_pages = 0 /\ h_empty_page = FALSE /\ h_detail_failed = {}
    /\ h_shrunk = FALSE /\ h_streak = "none"

RunQuiet == RunQuietOn(0)

WithinQuiet ==
    /\ w_row = TextNew /\ w_max_days = <<>> /\ w_result = FALSE /\ w_stage = "off"

RaceQuiet ==
    /\ r_mode = "off" /\ r_dataset = <<>> /\ r_seen = {} /\ r_pc = <<>> /\ r_loc = <<>>

LoadQuiet ==
    /\ l_dataset_file = [kind |-> "missing"] /\ l_state_file = [kind |-> "missing"]
    /\ l_stage = "off"

LinksQuiet ==
    /\ k_scraper = "ge" /\ k_page = <<>> /\ k_known = {} /\ k_links = <<>>
    /\ k_fresh = <<>> /\ k_merged = <<>> /\ k_stage = "off"

LangQuiet ==
    /\ g_row = TextNew /\ g_french = FALSE /\ g_allowed = FALSE /\ g_stage = "off"

ResolveQuiet ==
    /\ f_detail = <<>> /\ f_item = <<>> /\ f_rss = <<>> /\ f_max_days = <<>>
    /\ f_row = <<>> /\ f_kept = FALSE /\ f_stage = "off"

PipeQuiet ==
    /\ p_args = <<>> /\ p_file = <<>> /\ p_payload = <<>> /\ p_i = 0 /\ p_pc = "off"
    /\ p_run = 0 /\ p_did = <<>> /\ p_prev = <<>> /\ p_start = <<>> /\ p_writes = 0

ExtraQuiet == ResolveQuiet /\ PipeQuiet

\* the state before the first run: no dataset file, no state file
Init ==
    /\ MergeQuiet
    /\ WithinQuiet
    /\ RaceQuiet
    /\ LinksQuiet
    /\ LangQuiet
    /\ ExtraQuiet
    /\ LoadQuiet
    /\ scraper \in Scrapers
    /\ args \in ArgsChoices(scraper)
    /\ dataset = <<>> /\ state_seen = {} /\ today = 0 /\ runs = 0 /\ pc = "idle"
    /\ existing_jobs = NoLocals.existing_jobs /\ known_urls = NoLocals.known_urls
    /\ links = NoLocals.links /\ all_page_urls = NoLocals.all_page_urls
    /\ known_streak = NoLocals.known_streak /\ page = NoLocals.page
    /\ total_pages = NoLocals.total_pages /\ total_api_known = NoLocals.total_api_known
    /\ detail_items = NoLocals.detail_items /\ detail_idx = NoLocals.detail_idx
    /\ fresh_jobs = NoLocals.fresh_jobs /\ merged = NoLocals.merged
    /\ h_fetch_failed = FALSE /\ h_fetched = {} /\ h_discovered = {} /\ h_lost = {} /\ h_max_id = 0
    /\ h_pages = 0 /\ h_empty_page = FALSE /\ h_detail_failed = {}
    /\ h_shrunk = FALSE /\ h_streak = "none"

\* main() from the loaded files up to the first request
BeginRun(jobs, seen) ==
    /\ runs' = runs + 1
    /\ existing_jobs' = jobs
    /\ known_urls' = KnownUrls(jobs, seen)
    /\ pc' = IF scraper = "jobroom" THEN "pages" ELSE "page1"
    /\ page' = IF scraper = "jobroom" THEN 0 ELSE 1
    /\ h_fetch_failed' = FALSE
    /\ h_shrunk' = FALSE
    /\ h_pages' = 0 /\ h_empty_page' = FALSE /\ h_detail_failed' = {}
    /\ UNCHANGED <<config, files, today, links, all_page_urls, known_streak,
                   total_pages, total_api_known, detail_items, detail_idx, fresh_jobs, merged,
                   h_fetched, h_discovered, h_max_id, h_lost, h_streak>>

\* main() up to the first request: load the dataset and the state file, which
\* hold what the last run wrote
StartRun ==
    /\ pc \in {"idle", "aborted"}
    /\ runs < MaxRuns
    /\ BeginRun(dataset, state_seen)
    /\ UNCHANGED sideVars

\* an exception main() does not catch: the process ends, nothing is written
Abort ==
    /\ pc' = "aborted"
    /\ ResetLocals
    /\ h_streak' = "none"
    /\ h_discovered' = h_discovered \cup Range(links)
    /\ UNCHANGED <<sideVars, config, files, today, runs, h_fetched, h_max_id, h_shrunk,
                   h_lost>>

\* the page loop goes on with page next, or is left for the detail step
LeaveOrStay(stay, ls, next) ==
    /\ pc' = IF stay THEN "pages" ELSE "details"
    /\ page' = IF stay THEN next ELSE 0
    /\ detail_items' = IF stay THEN <<>> ELSE DetailItems(ls, known_urls, args)
    /\ detail_idx' = IF stay THEN 0 ELSE 1

\* ge, jobup, talent: page 1 has been fetched (items = [] after a failure)
Page1Done(items, tp) ==
    LET ls == ScanFirst(items, <<>>)
        tpc == IF scraper = "jobup" THEN CappedTotalPages(args, tp) ELSE <<>>
    IN  /\ links' = ls
        /\ total_pages' = tpc
        /\ h_streak' = StreakAfter(items, 1..Len(items))
        /\ LeaveOrStay(2 <= PageLimit(scraper, args, tpc), ls, 2)
        /\ UNCHANGED <<sideVars, config, files, today, runs, existing_jobs, known_urls,
                       all_page_urls, known_streak, total_api_known, fresh_jobs, merged,
                       h_fetched, history>>

\* the request for page 1 fails (exception or status >= 400)
FetchPage1Fail ==
    /\ pc = "page1"
    /\ h_fetch_failed' = TRUE
    /\ h_pages' = h_pages + 1
    /\ UNCHANGED <<h_empty_page, h_detail_failed>>
    /\ IF scraper = "talent" THEN Abort ELSE Page1Done(<<>>, <<>>)

\* the request for page 1 succeeds and the source serves one of served
FetchPage1OkFrom(served) ==
    /\ pc = "page1"
    /\ \E p \in served :
       \E tp \in (IF scraper = "jobup" THEN TotalPagesChoices ELSE {<<>>}) :
           /\ Page1Done(p, tp)
           /\ h_empty_page' = (p = <<>>)
    /\ h_pages' = h_pages + 1
    /\ UNCHANGED <<h_fetch_failed, h_detail_failed>>

FetchPage1Ok == FetchPage1OkFrom(PageOutcomes(1))

\* the request for a later page (jobroom: any page) fails
FetchPageFail ==
    /\ pc = "pages"
    /\ h_fetch_failed' = TRUE
    /\ h_pages' = h_pages + 1
    /\ UNCHANGED <<h_empty_page, h_detail_failed>>
    /\ IF scraper = "talent" THEN Abort
       ELSE /\ LeaveOrStay(FALSE, links, 0)
            /\ h_streak' = StreakAfter(<<>>, {})
            /\ UNCHANGED <<sideVars, config, files, today, runs, existing_jobs, known_urls,
                           links, all_page_urls, known_streak, total_pages, total_api_known,
                           fresh_jobs, merged, h_fetched, history>>

\* ge, jobup, talent: a later page is fetched and scanned
FetchPageOkFrom(served) ==
    /\ pc = "pages"
    /\ scraper # "jobroom"
    /\ \E p \in served :
           LET detected == scraper = "jobup" /\ total_pages # <<>>
               empty == p = <<>> /\ ~detected
               st == ScanLater(p, [links |-> links, known_streak |-> known_streak],
                               known_urls, args.stop_after_seen)
               stop == StreakStop(args, st.known_streak)
               stay == ~empty /\ ~stop /\ page + 1 <= PageLimit(scraper, args, total_pages)
           IN  /\ links' = st.links
               /\ known_streak' = st.known_streak
               /\ h_streak' = StreakAfter(p, {j \in 1..Len(p) : p[j] \notin Range(links)
                                                               /\ p[j] \in Range(st.links)})
               /\ LeaveOrStay(stay, st.links, page + 1)
               /\ h_empty_page' = (h_empty_page \/ p = <<>>)
    /\ h_pages' = h_pages + 1
    /\ UNCHANGED <<sideVars, config, files, today, runs, existing_jobs, known_urls,
                   all_page_urls, total_pages, total_api_known, fresh_jobs, merged,
                   h_fetch_failed, h_fetched, history, h_detail_failed>>

FetchPageOk == FetchPageOkFrom(PageOutcomes(page))

\* jobroom: a page of the search API is fetched and its rows are scanned; the
\* API serves one of served, reports one of totals, the rows show one of shown
FetchRowsOkFrom(served, totals, shown) ==
    /\ pc = "pages"
    /\ scraper = "jobroom"
    /\ \E p \in served :
       \E total \in totals :
       \E attrs \in [Range(p) \ known_urls -> shown] :
           LET rows == [i \in 1..Len(p) |->
                           IF p[i] \in DOMAIN attrs
                           THEN FetchedRow(scraper, p[i], attrs[p[i]][1], attrs[p[i]][2])
                           ELSE FetchedRow(scraper, p[i], <<>>, TextNew)]
               tk == IF total_api_known = <<>> THEN total ELSE total_api_known
               st == ScanRows(rows, [all_page_urls |-> all_page_urls,
                                     seen_streak |-> known_streak,
                                     fresh_jobs |-> fresh_jobs], known_urls, args)
               stay == /\ rows # <<>>
                       /\ ~StreakStop(args, st.seen_streak)
                       /\ ~(args.max_jobs > 0 /\ Len(st.fresh_jobs) >= args.max_jobs)
                       /\ ~TotalReached(tk, page)
                       /\ ~(Len(rows) < PageSize)
                       /\ ~(args.max_pages > 0 /\ page + 1 >= args.max_pages)
           IN  /\ total_api_known' = tk
               /\ all_page_urls' = st.all_page_urls
               /\ known_streak' = st.seen_streak
               /\ fresh_jobs' = st.fresh_jobs
               /\ h_fetched' = {UrlKey(st.fresh_jobs[i]) : i \in 1..Len(st.fresh_jobs)}
               /\ h_streak' = StreakAfter(p, 1..(Len(st.all_page_urls) - Len(all_page_urls)))
               /\ LeaveOrStay(stay, <<>>, page + 1)
               /\ h_empty_page' = (h_empty_page \/ p = <<>>)
    /\ h_pages' = h_pages + 1
    /\ UNCHANGED <<sideVars, config, files, today, runs, existing_jobs, known_urls, links,
                   total_pages, merged, h_fetch_failed, history, h_detail_failed>>

FetchRowsOk ==
    FetchRowsOkFrom(PageOutcomes(page + 1), TotalApiChoices,
                    PostingChoices \X TextChoices(scraper))

\* mutant of FetchDetailFail: the exception of fetch_detail is not caught
FetchDetailFailAborts ==
    /\ pc = "details"
    /\ detail_idx <= Len(detail_items)
    /\ h_detail_failed' = h_detail_failed \cup {detail_items[detail_idx]}
    /\ UNCHANGED <<h_fetch_failed, h_pages, h_empty_page>>
    /\ Abort

\* ge, jobup, talent: fetch_detail raises, the url is skipped
FetchDetailFail ==
    /\ pc = "details"
    /\ detail_idx <= Len(detail_items)
    /\ detail_idx' = detail_idx + 1
    /\ h_fetched' = h_fetched \cup {detail_items[detail_idx]}
    /\ h_detail_failed' = h_detail_failed \cup {detail_items[detail_idx]}
    /\ UNCHANGED <<sideVars, config, files, today, runs, pc, existing_jobs, known_urls, links,
                   all_page_urls, known_streak, page, total_pages, total_api_known,
                   detail_items, fresh_jobs, merged, h_fetch_failed, history, h_streak,
                   h_pages, h_empty_page>>

\* ge, jobup, talent: fetch_detail returns a row; ge and talent keep it only
\* when its posting date is within the window
FetchDetailOk ==
    /\ pc = "details"
    /\ detail_idx <= Len(detail_items)
    /\ \E pd \in PostingChoices, text \in TextChoices(scraper) :
           LET row == FetchedRow(scraper, detail_items[detail_idx], pd, text)
           IN  fresh_jobs' = IF scraper # "jobup" /\ ~within_days(row, MaxDaysOf(args))
                             THEN fresh_jobs
                             ELSE Append(fresh_jobs, row)
    /\ detail_idx' = detail_idx + 1
    /\ h_fetched' = h_fetched \cup {detail_items[detail_idx]}
    /\ UNCHANGED <<sideVars, config, files, today, runs, pc, existing_jobs, known_urls, links,
                   all_page_urls, known_streak, page, total_pages, total_api_known,
                   detail_items, merged, h_fetch_failed, history, h_streak,
                   h_pages, h_empty_page, h_detail_failed>>

\* merge_jobs_by_url, then save_state
MergeSaveState ==
    /\ pc = "details"
    /\ detail_idx > Len(detail_items)
    /\ LET out == merge_jobs_by_url(scraper, args.filter_lang, existing_jobs, fresh_jobs)
       IN  /\ merged' = out
           /\ state_seen' = SeenNow(scraper, known_urls, links, all_page_urls, out)
    /\ pc' = "save_json"
    /\ UNCHANGED <<sideVars, config, dataset, today, runs, existing_jobs, known_urls, links,
                   all_page_urls, known_streak, page, total_pages, total_api_known,
                   detail_items, detail_idx, fresh_jobs, h_fetch_failed, h_fetched, history,
                   h_streak, h_pages, h_empty_page, h_detail_failed>>

\* the rows save_json writes: talent writes merged, the others the rows within the window
Written(s, rows, a) == IF s = "talent" THEN rows ELSE SelectWithin(rows, MaxDaysOf(a))

\* the new urls of a run that brought no row: fetch_detail raised, or the url
\* is past the --max-jobs cut of detail_items
NotFetched(ls, known, items, failed) ==
    failed \cup (Range(SelectUnknown(ls, known)) \ Range(items))

\* save_json: the run ends
SaveJson ==
    /\ pc = "save_json"
    /\ LET out == Written(scraper, merged, args)
       IN  /\ dataset' = out
           /\ h_max_id' = Max({h_max_id} \cup {out[i].id : i \in 1..Len(out)})
           /\ h_shrunk' = (Len(out) < Len(dataset))
    /\ h_discovered' = h_discovered \cup Range(links) \cup Range(all_page_urls)
    /\ h_lost' = h_lost \cup NotFetched(links, known_urls, detail_items, h_detail_failed)
    /\ h_fetched' = {}
    /\ h_streak' = "none"
    /\ h_fetch_failed' = FALSE
    /\ h_pages' = 0 /\ h_empty_page' = FALSE /\ h_detail_failed' = {}
    /\ pc' = "idle"
    /\ ResetLocals
    /\ UNCHANGED <<sideVars, config, state_seen, today, runs>>

\* days pass between two runs
Tick ==
    /\ pc \in {"idle", "aborted"}
    /\ today < MaxToday
    /\ \E d \in (today + 1)..MaxToday : today' = d
    /\ UNCHANGED <<sideVars, config, files, runs, pc, existing_jobs, known_urls, links,
                   all_page_urls, known_streak, page, total_pages, total_api_known,
                   detail_items, detail_idx, fresh_jobs, merged, h_fetch_failed, h_fetched,
                   history, h_streak, h_pages, h_empty_page, h_detail_failed>>

Next ==
    \/ StartRun
    \/ FetchPage1Fail
    \/ FetchPage1Ok
    \/ FetchPageFail
    \/ FetchPageOk
    \/ FetchRowsOk
    \/ FetchDetailFail
    \/ FetchDetailOk
    \/ MergeSaveState
    \/ SaveJson
    \/ Tick

Spec == Init /\ [][Next]_vars

\* the command lines with --stop-after-seen 0: without and with --max-pages
\* and --max-jobs
NoStopArgs(s) ==
    {[max_pages |-> 0, max_jobs |-> 0, days |-> 1, stop_after_seen |-> 0,
      filter_lang |-> s \in {"talent", "jobroom"}],
     [max_pages |-> 1, max_jobs |-> 1, days |-> 0, stop_after_seen |-> 0,
      filter_lang |-> FALSE]}

\* the state before the first run of a dataset whose runs have --stop-after-seen 0
NoStopInit ==
    /\ MergeQuiet
    /\ WithinQuiet
    /\ RaceQuiet
    /\ LinksQuiet
    /\ LangQuiet
    /\ ExtraQuiet
    /\ LoadQuiet
    /\ scraper \in Scrapers
    /\ args \in NoStopArgs(scraper)
    /\ dataset = <<>> /\ state_seen = {} /\ today = 0 /\ runs = 0 /\ pc = "idle"
    /\ existing_jobs = NoLocals.existing_jobs /\ known_urls = NoLocals.known_urls
    /\ links = NoLocals.links /\ all_page_urls = NoLocals.all_page_urls
    /\ known_streak = NoLocals.known_streak /\ page = NoLocals.page
    /\ total_pages = NoLocals.total_pages /\ total_api_known = NoLocals.total_api_known
    /\ detail_items = NoLocals.detail_items /\ detail_idx = NoLocals.detail_idx
    /\ fresh_jobs = NoLocals.fresh_jobs /\ merged = NoLocals.merged
    /\ h_fetch_failed = FALSE /\ h_fetched = {} /\ h_discovered = {} /\ h_lost = {} /\ h_max_id = 0
    /\ h_pages = 0 /\ h_empty_page = FALSE /\ h_detail_failed = {}
    /\ h_shrunk = FALSE /\ h_streak = "none"

\* runs with the known-streak stop disabled
SpecNoStop == NoStopInit /\ [][Next]_vars

\* a source that never runs dry: every page number is served, as a full
\* page, a short page or an empty one
EndlessPages == {<<>>, <<<<"a">>>>, <<<<"a">>, <<"b">>>>}

\* the state before a run against such a source: no dataset yet, a state
\* file with or without a seen url
EndlessInit ==
    /\ MergeQuiet
    /\ WithinQuiet
    /\ RaceQuiet
    /\ LinksQuiet
    /\ LangQuiet
    /\ ExtraQuiet
    /\ LoadQuiet
    /\ scraper \in Scrapers
    /\ args \in ArgsChoices(scraper)
    /\ dataset = <<>> /\ state_seen \in {{}, {<<"a">>}}
    /\ today = 0 /\ runs = MaxRuns - 1 /\ pc = "idle"
    /\ existing_jobs = NoLocals.existing_jobs /\ known_urls = NoLocals.known_urls
    /\ links = NoLocals.links /\ all_page_urls = NoLocals.all_page_urls
    /\ known_streak = NoLocals.known_streak /\ page = NoLocals.page
    /\ total_pages = NoLocals.total_pages /\ total_api_known = NoLocals.total_api_known
    /\ detail_items = NoLocals.detail_items /\ detail_idx = NoLocals.detail_idx
    /\ fresh_jobs = NoLocals.fresh_jobs /\ merged = NoLocals.merged
    /\ h_fetch_failed = FALSE /\ h_fetched = {} /\ h_discovered = {} /\ h_lost = {} /\ h_max_id = 0
    /\ h_pages = 0 /\ h_empty_page = FALSE /\ h_detail_failed = {}
    /\ h_shrunk = FALSE /\ h_streak = "none"

EndlessPage1Ok == FetchPage1OkFrom(EndlessPages)

EndlessPageOk == FetchPageOkFrom(EndlessPages)

\* jobroom against the endless source: the API reports no total, or one just
\* above a page; the rows are never-seen postings in German, two days old,
\* which the filters leave out; the run is followed for MaxDynPages + 1 requests
EndlessRowsOk ==
    /\ h_pages <= MaxDynPages
    /\ FetchRowsOkFrom(EndlessPages, TotalApiChoices, {<<<<today - 2>>, TextNewDe>>})

EndlessNext ==
    \/ StartRun
    \/ FetchPage1Fail
    \/ EndlessPage1Ok
    \/ FetchPageFail
    \/ EndlessPageOk
    \/ EndlessRowsOk
    \/ FetchDetailFail
    \/ FetchDetailOk
    \/ MergeSaveState
    \/ SaveJson

\* one run of each scraper against a source that never runs dry
SpecEndless == EndlessInit /\ [][EndlessNext]_vars

\* records a dataset file can hold when a run loads it: one an earlier run
\* wrote and the professions pipeline extended, and one of a file written
\* before ids and sources were kept
PipelineRow(s) ==
    With(With(FetchedRow(s, <<"a">>, <<0>>, TextOld), "id", 2), "professions", <<"p">>)

LegacyRow == With(With(TextOld, "url", <<"c">>), "posting_date", <<0>>)

CarriedDatasets(s) ==
    {<<PipelineRow(s)>>, <<LegacyRow>>, <<PipelineRow(s), LegacyRow>>,
     <<LegacyRow, PipelineRow(s)>>}

\* the state before a run on such a file, with the state file of the earlier
\* runs or without one
CarryInit ==
    /\ MergeQuiet
    /\ WithinQuiet
    /\ RaceQuiet
    /\ LinksQuiet
    /\ LangQuiet
    /\ ExtraQuiet
    /\ LoadQuiet
    /\ scraper \in Scrapers
    /\ args \in ArgsChoices(scraper)
    /\ dataset \in CarriedDatasets(scraper)
    /\ state_seen \in {{}, {UrlKey(dataset[i]) : i \in 1..Len(dataset)}}
    /\ today = 0 /\ runs = MaxRuns - 1 /\ pc = "idle"
    /\ existing_jobs = NoLocals.existing_jobs /\ known_urls = NoLocals.known_urls
    /\ links = NoLocals.links /\ all_page_urls = NoLocals.all_page_urls
    /\ known_streak = NoLocals.known_streak /\ page = NoLocals.page
    /\ total_pages = NoLocals.total_pages /\ total_api_known = NoLocals.total_api_known
    /\ detail_items = NoLocals.detail_items /\ detail_idx = NoLocals.detail_idx
    /\ fresh_jobs = NoLocals.fresh_jobs /\ merged = NoLocals.merged
    /\ h_fetch_failed = FALSE /\ h_fetched = {} /\ h_discovered = {} /\ h_lost = {}
    /\ h_max_id = 0
    /\ h_pages = 0 /\ h_empty_page = FALSE /\ h_detail_failed = {}
    /\ h_shrunk = FALSE /\ h_streak = "none"

\* one run on a dataset other tools have written to
SpecCarry == CarryInit /\ [][Next]_vars

(***************************************************************************)
(* SpecMerge: merge_jobs_by_url on bounded arguments                       *)
(***************************************************************************)
MergeUrls == {<<>>, <<"a">>, <<" ", "a">>, <<"b">>}
MergeIds == {1, 3}
MkRow(url, text) ==
    IF url = <<>> THEN text ELSE With(text, "url", url)

\* rows a dataset file can hold: with or without a url, with or without an id
CurrentRows ==
    {MkRow(u, t) : u \in MergeUrls, t \in {TextOld, TextOldDe}}
    \cup {With(MkRow(u, t), "id", n) : u \in MergeUrls, t \in {TextOld, TextOldDe}, n \in MergeIds}

\* rows of a fresh batch: fetch_detail / normalize give no id
FreshRows == {MkRow(u, t) : u \in MergeUrls, t \in {TextNew, TextNewDe}}

MergeInit ==
    /\ m_scraper \in Scrapers
    /\ m_filter_lang \in BOOLEAN
    /\ (m_scraper # "talent" => m_filter_lang = FALSE)
    /\ m_current \in SeqsUpTo(CurrentRows, MaxCurrent)
    /\ m_fresh \in SeqsUpTo(FreshRows, MaxFresh)
    /\ m_out = <<>>
    /\ m_again = <<>>
    /\ m_stage = "args"
    /\ RunQuiet
    /\ WithinQuiet
    /\ RaceQuiet
    /\ LinksQuiet
    /\ LangQuiet
    /\ ExtraQuiet
    /\ LoadQuiet

MergeFirst ==
    /\ m_stage = "args"
    /\ LET r == MergeCall(m_scraper, m_filter_lang, m_current, m_fresh)
       IN  /\ m_out' = r.out
           /\ m_fresh' = r.fresh
    /\ m_stage' = "merged"
    /\ UNCHANGED <<m_scraper, m_filter_lang, m_current, m_again, withinVars, raceVars, loadVars, linkVars, langVars, extraVars,
                   runVars>>

MergeAgain ==
    /\ m_stage = "merged"
    /\ LET r == MergeCall(m_scraper, m_filter_lang, m_out, m_fresh)
       IN  /\ m_again' = r.out
           /\ m_fresh' = r.fresh
    /\ m_stage' = "remerged"
    /\ UNCHANGED <<m_scraper, m_filter_lang, m_current, m_out, withinVars, raceVars, loadVars, linkVars, langVars, extraVars,
                   runVars>>

MergeNext == MergeFirst \/ MergeAgain

SpecMerge == MergeInit /\ [][MergeNext]_vars

\* legacy dataset files: up to MaxExisting rows, most without an id, a url
\* possibly held by more than one row
LegacyRows ==
    {MkRow(u, t) : u \in {<<>>, <<"a">>, <<"b">>}, t \in {TextOld, TextOldDe}}
    \cup {With(MkRow(u, TextOld), "id", 3) : u \in {<<"a">>, <<"b">>}}

LegacyFresh == {MkRow(u, TextNew) : u \in {<<"a">>, <<"c">>}}

LegacyInit ==
    /\ m_scraper \in Scrapers
    /\ m_filter_lang \in BOOLEAN
    /\ (m_scraper # "talent" => m_filter_lang = FALSE)
    /\ m_current \in SeqsUpTo(LegacyRows, MaxExisting)
    /\ m_fresh \in SeqsUpTo(LegacyFresh, MaxFresh)
    /\ m_out = <<>>
    /\ m_again = <<>>
    /\ m_stage = "args"
    /\ RunQuiet
    /\ WithinQuiet
    /\ RaceQuiet
    /\ LinksQuiet
    /\ LangQuiet
    /\ ExtraQuiet
    /\ LoadQuiet

\* merge_jobs_by_url on legacy dataset files
SpecLegacy == LegacyInit /\ [][MergeNext]_vars

\* merge_jobs_by_url on bounded arguments and as the runs call it
SpecAll == (MergeInit \/ Init) /\ [][MergeNext \/ Next]_vars


(***************************************************************************)
(* SpecWithin: within_days on bounded arguments                            *)
(***************************************************************************)
\* posting_date texts: the empty string, a text fromisoformat rejects, and
\* the days from before the widest window to after today
WithinDates == {<<>>, <<0, 0>>} \cup {<<d>> : d \in (0 - MaxWindow - 1)..(MaxToday + 1)}

\* rows with and without a posting_date (row.get gives None for the latter)
WithinRows == {TextNew} \cup {With(TextNew, "posting_date", pd) : pd \in WithinDates}

\* max_days: None, or a window of 0..MaxWindow days
WithinWindows == {<<>>} \cup {<<n>> : n \in 0..MaxWindow}

WithinInit ==
    /\ w_row \in WithinRows
    /\ w_max_days \in WithinWindows
    /\ w_result = FALSE
    /\ w_stage = "args"
    /\ \E d \in 0..MaxToday : RunQuietOn(d)
    /\ MergeQuiet
    /\ RaceQuiet
    /\ LinksQuiet
    /\ LangQuiet
    /\ ExtraQuiet
    /\ LoadQuiet

WithinCall ==
    /\ w_stage = "args"
    /\ w_result' = within_days(w_row, w_max_days)
    /\ w_stage' = "returned"
    /\ UNCHANGED <<w_row, w_max_days, mergeVars, raceVars, loadVars, linkVars, langVars, extraVars,
                   runVars>>

SpecWithin == WithinInit /\ [][WithinCall]_vars


(***************************************************************************)
(* SpecRace: two runs of ge's main() on the same dataset and state file.   *)
(* A run is four steps: load both files, crawl (listing and details),      *)
(* merge and write the state file, write the dataset file.  The runs have  *)
(* no --days, --max-pages, --max-jobs or --stop-after-seen (RunQuiet's     *)
(* args) and every listing request succeeds.                               *)
(***************************************************************************)
Procs == {1, 2}

RaceNoLocals ==
    [existing_jobs |-> <<>>, known_urls |-> {}, links |-> <<>>, fresh_jobs |-> <<>>,
     merged |-> <<>>]

\* no file yet; the runs are either serialized from outside or not
RaceInit ==
    /\ r_mode \in {"serial", "concurrent"}
    /\ r_dataset = <<>>
    /\ r_seen = {}
    /\ r_pc = [p \in Procs |-> "start"]
    /\ r_loc = [p \in Procs |-> RaceNoLocals]
    /\ RunQuiet
    /\ MergeQuiet
    /\ WithinQuiet
    /\ LoadQuiet
    /\ LinksQuiet
    /\ LangQuiet
    /\ ExtraQuiet

\* load_json_jobs and load_state; under external serialization a run starts
\* only when no other run is under way
RaceLoad(p) ==
    /\ r_pc[p] = "start"
    /\ r_mode = "serial" => \A q \in Procs \ {p} : r_pc[q] \in {"start", "done"}
    /\ r_loc' = [r_loc EXCEPT ![p].existing_jobs = r_dataset,
                              ![p].known_urls = KnownUrls(r_dataset, r_seen)]
    /\ r_pc' = [r_pc EXCEPT ![p] = "crawl"]
    /\ UNCHANGED <<r_mode, r_dataset, r_seen, mergeVars, withinVars, loadVars, linkVars, langVars, extraVars,
                   runVars>>

\* the listing pages show the links pg; the unknown ones are detail-fetched,
\* the fetches of those outside ok fail and are skipped
RaceCrawl(p) ==
    /\ r_pc[p] = "crawl"
    /\ \E pg \in Pages :
           LET ls == ScanFirst(pg, <<>>)
               items == DetailItems(ls, r_loc[p].known_urls, args)
           IN  \E ok \in SUBSET Range(items) :
                   LET got == SelectUnknown(items, Range(items) \ ok)
                   IN  r_loc' = [r_loc EXCEPT
                                    ![p].links = ls,
                                    ![p].fresh_jobs =
                                        [i \in 1..Len(got) |->
                                            FetchedRow(scraper, got[i], <<today>>, TextNew)]]
    /\ r_pc' = [r_pc EXCEPT ![p] = "save_state"]
    /\ UNCHANGED <<r_mode, r_dataset, r_seen, mergeVars, withinVars, loadVars, linkVars, langVars, extraVars,
                   runVars>>

\* merge_jobs_by_url, then save_state
RaceSaveState(p) ==
    /\ r_pc[p] = "save_state"
    /\ LET out == merge_jobs_by_url(scraper, args.filter_lang, r_loc[p].existing_jobs,
                                    r_loc[p].fresh_jobs)
       IN  /\ r_loc' = [r_loc EXCEPT ![p].merged = out]
           /\ r_seen' = SeenNow(scraper, r_loc[p].known_urls, r_loc[p].links, <<>>, out)
    /\ r_pc' = [r_pc EXCEPT ![p] = "save_json"]
    /\ UNCHANGED <<r_mode, r_dataset, mergeVars, withinVars, loadVars, linkVars, langVars, extraVars,
                   runVars>>

\* save_json: the run ends
RaceSaveJson(p) ==
    /\ r_pc[p] = "save_json"
    /\ r_dataset' = Written(scraper, r_loc[p].merged, args)
    /\ r_pc' = [r_pc EXCEPT ![p] = "done"]
    /\ UNCHANGED <<r_mode, r_seen, r_loc, mergeVars, withinVars, loadVars, linkVars, langVars, extraVars,
                   runVars>>

RaceNext ==
    \/ \E p \in Procs : RaceLoad(p)
    \/ \E p \in Procs : RaceCrawl(p)
    \/ \E p \in Procs : RaceSaveState(p)
    \/ \E p \in Procs : RaceSaveJson(p)

SpecRace == RaceInit /\ [][RaceNext]_vars


(***************************************************************************)
(* SpecLoad: one run of main() on a dataset file and a state file of any   *)
(* content.  A file is missing, holds no JSON, or holds a JSON value: a    *)
(* list of values, an object (its members as a row), or any other value.   *)
(***************************************************************************)
JsonList(items) == [t |-> "list", items |-> items]
JsonDict(row) == [t |-> "dict", row |-> row]
JsonOther == [t |-> "other"]
NoFile == [kind |-> "missing"]
NoJson == [kind |-> "invalid"]
JsonFile(v) == [kind |-> "json", value |-> v]

\* [x for x in data if isinstance(x, dict)]
RECURSIVE DictRows(_)
DictRows(items) ==
    IF items = <<>> THEN <<>>
    ELSE IF Head(items).t = "dict" THEN <<Head(items).row>> \o DictRows(Tail(items))
         ELSE DictRows(Tail(items))

\* load_json_jobs(path)
load_json_jobs(f) ==
    IF f.kind = "missing" THEN <<>>
    ELSE IF f.kind = "invalid" THEN <<>>
    ELSE IF f.value.t # "list" THEN <<>>
    ELSE DictRows(f.value.items)

\* load_state(path): the dict read, {} otherwise
load_state(f) ==
    IF f.kind = "missing" THEN <<>>
    ELSE IF f.kind = "invalid" THEN <<>>
    ELSE IF f.value.t = "dict" THEN f.value.row ELSE <<>>

\* state_urls = auto_state.get("seen_urls"), taken when it is a list; its
\* entries are the texts str(u)
StateUrls(state) ==
    IF "seen_urls" \in DOMAIN state /\ state.seen_urls.t = "list"
    THEN Range(state.seen_urls.items)
    ELSE {}

\* a row an earlier run wrote
StoredRow(s) == With(FetchedRow(s, <<"a">>, <<0>>, TextOld), "id", 1)

DatasetFiles(s) ==
    {NoFile, NoJson, JsonFile(JsonOther), JsonFile(JsonDict(StoredRow(s))),
     JsonFile(JsonList(<<JsonOther>>)),
     JsonFile(JsonList(<<JsonOther, JsonDict(StoredRow(s)), JsonList(<<>>)>>))}

StateFiles ==
    {NoFile, NoJson, JsonFile(JsonList(<<>>)),
     JsonFile(JsonDict([last_run_at |-> JsonOther])),
     JsonFile(JsonDict([seen_urls |-> JsonOther])),
     JsonFile(JsonDict([seen_urls |-> JsonDict([a |-> JsonOther])])),
     JsonFile(JsonDict([seen_urls |-> JsonList(<<<<"b">>, <<" ">>>>)]))}

LoadInit ==
    /\ scraper \in Scrapers
    /\ args \in ArgsChoices(scraper)
    /\ l_dataset_file \in DatasetFiles(scraper)
    /\ l_state_file \in StateFiles
    /\ l_stage = "files"
    /\ dataset = <<>> /\ state_seen = {} /\ today = 0 /\ runs = MaxRuns - 1 /\ pc = "off"
    /\ existing_jobs = NoLocals.existing_jobs /\ known_urls = NoLocals.known_urls
    /\ links = NoLocals.links /\ all_page_urls = NoLocals.all_page_urls
    /\ known_streak = NoLocals.known_streak /\ page = NoLocals.page
    /\ total_pages = NoLocals.total_pages /\ total_api_known = NoLocals.total_api_known
    /\ detail_items = NoLocals.detail_items /\ detail_idx = NoLocals.detail_idx
    /\ fresh_jobs = NoLocals.fresh_jobs /\ merged = NoLocals.merged
    /\ h_fetch_failed = FALSE /\ h_fetched = {} /\ h_discovered = {} /\ h_lost = {} /\ h_max_id = 0
    /\ h_pages = 0 /\ h_empty_page = FALSE /\ h_detail_failed = {}
    /\ h_shrunk = FALSE /\ h_streak = "none"
    /\ MergeQuiet
    /\ WithinQuiet
    /\ RaceQuiet
    /\ LinksQuiet
    /\ LangQuiet
    /\ ExtraQuiet

\* mutant of LoadRun: json.loads is called outside try/except
LoadRunRaises ==
    /\ l_stage = "files"
    /\ l_stage' = "loaded"
    /\ IF l_dataset_file.kind = "invalid" \/ l_state_file.kind = "invalid"
       THEN /\ pc' = "aborted"
            /\ UNCHANGED <<config, files, today, runs, existing_jobs, known_urls, links,
                           all_page_urls, known_streak, page, total_pages, total_api_known,
                           detail_items, detail_idx, fresh_jobs, merged, h_fetch_failed,
                           h_fetched, history, h_streak, h_pages, h_empty_page,
                           h_detail_failed>>
       ELSE BeginRun(load_json_jobs(l_dataset_file), StateUrls(load_state(l_state_file)))
    /\ UNCHANGED <<l_dataset_file, l_state_file, mergeVars, withinVars, raceVars, linkVars,
                   langVars, extraVars>>

\* main() up to the first request, on the files found
LoadRun ==
    /\ l_stage = "files"
    /\ l_stage' = "loaded"
    /\ BeginRun(load_json_jobs(l_dataset_file), StateUrls(load_state(l_state_file)))
    /\ UNCHANGED <<l_dataset_file, l_state_file, mergeVars, withinVars, raceVars, linkVars,
                   langVars, extraVars>>

LoadNext ==
    \/ LoadRun
    \/ FetchPage1Fail
    \/ FetchPage1Ok
    \/ FetchPageFail
    \/ FetchPageOk
    \/ FetchRowsOk
    \/ FetchDetailFail
    \/ FetchDetailOk
    \/ MergeSaveState
    \/ SaveJson
    \/ Tick

SpecLoad == LoadInit /\ [][LoadNext]_vars


(***************************************************************************)
(* SpecLinks: extract_detail_links of ge, jobup and talent on the hrefs of *)
(* one listing page, and the records main() makes of the links.  An href   *)
(* is a sequence of characters: the first one names the page it points to  *)
(* ("a", "b": detail pages, with talent's id parameter; "n": another       *)
(* page), "?" starts a query-string decoration, "#" a fragment.            *)
(***************************************************************************)
\* s.split(c)[0]
RECURSIVE CutAt(_, _)
CutAt(s, c) ==
    IF s = <<>> THEN <<>>
    ELSE IF Head(s) = c THEN <<>>
    ELSE <<Head(s)>> \o CutAt(Tail(s), c)

\* _is_job_detail_url(full): host and path (talent: and the id parameter)
\* are those of a detail page; any further query is accepted
_is_job_detail_url(full) == full # <<>> /\ full[1] \in {"a", "b"}

\* the <a> elements the loop visits: ge selects by the pattern
\* /liste-offres/\d+$ on the href attribute, jobup and talent take a[href]
HrefSelected(s, href) ==
    s = "ge" => \A i \in 1..Len(href) : href[i] \notin {"?", "#"}

\* extract_detail_links(html): urljoin(...).split("#")[0], kept when it is a
\* detail url not yet in seen
RECURSIVE extract_detail_links(_, _, _)
extract_detail_links(s, hrefs, out) ==
    IF hrefs = <<>> THEN out
    ELSE LET href == Strip(Head(hrefs))
             full == CutAt(href, "#")
             keep == /\ href # <<>>
                     /\ HrefSelected(s, href)
                     /\ _is_job_detail_url(full)
                     /\ full \notin Range(out)
         IN  extract_detail_links(s, Tail(hrefs), IF keep THEN Append(out, full) ELSE out)

Hrefs == {<<"a">>, <<"a", "?", "x">>, <<"a", "#", "f">>, <<"b">>, <<"n">>}

\* the dataset an earlier run wrote when it saw the urls known
RECURSIVE StoredRows(_, _, _)
StoredRows(s, known, n) ==
    IF known = {} THEN <<>>
    ELSE LET u == CHOOSE u \in known : TRUE
         IN  <<With(FetchedRow(s, u, <<0>>, TextOld), "id", n)>>
             \o StoredRows(s, known \ {u}, n + 1)

LinksInit ==
    /\ k_scraper \in {"ge", "jobup", "talent"}
    /\ k_page \in SeqsUpTo(Hrefs, MaxPageLen)
    /\ k_known \in {{}, {<<"a">>}, {<<"a", "?", "x">>}}
    /\ k_links = <<>>
    /\ k_fresh = <<>>
    /\ k_merged = <<>>
    /\ k_stage = "page"
    /\ RunQuiet
    /\ MergeQuiet
    /\ WithinQuiet
    /\ RaceQuiet
    /\ LoadQuiet
    /\ LangQuiet
    /\ ExtraQuiet

\* page_links = extract_detail_links(html)
LinksExtract ==
    /\ k_stage = "page"
    /\ k_links' = extract_detail_links(k_scraper, k_page, <<>>)
    /\ k_stage' = "links"
    /\ UNCHANGED <<k_scraper, k_page, k_known, k_fresh, k_merged, mergeVars, withinVars,
                   raceVars, loadVars, langVars, extraVars, runVars>>

\* main() from the scan of the page to the merge, every fetch_detail succeeding
LinksMerge ==
    /\ k_stage = "links"
    /\ LET items == DetailItems(ScanFirst(k_links, <<>>), k_known, args)
           fresh == [i \in 1..Len(items) |->
                        FetchedRow(k_scraper, items[i], <<today>>, TextNew)]
       IN  /\ k_fresh' = fresh
           /\ k_merged' = merge_jobs_by_url(k_scraper, k_scraper = "talent",
                                            StoredRows(k_scraper, k_known, 1), fresh)
    /\ k_stage' = "merged"
    /\ UNCHANGED <<k_scraper, k_page, k_known, k_links, mergeVars, withinVars,
                   raceVars, loadVars, langVars, extraVars, runVars>>

LinksNext == LinksExtract \/ LinksMerge

SpecLinks == LinksInit /\ [][LinksNext]_vars


(***************************************************************************)
(* SpecLang: the relevance filters on bounded rows                         *)
(***************************************************************************)
\* words a description is made of: hints of each language ("experience" is a
\* French and an English hint) and a word that is no hint
LangWords == {"poste", "equipe", "experience", "team", "job", "stelle", "arbeit", "lavoro",
              "xyz"}

\* a text with the words of S
RECURSIVE TextOf(_)
TextOf(S) ==
    IF S = {} THEN <<>>
    ELSE LET w == CHOOSE w \in S : TRUE IN <<w>> \o TextOf(S \ {w})

\* rows with a title or none (None), a description or none, and with or
\* without language_codes (lower-case codes, as jobroom.normalize gives them)
LangRows ==
    LET described == {<<>>} \cup {With(<<>>, "description", TextOf(S)) :
                                     S \in SUBSET LangWords}
        titled == described \cup {With(r, "title", <<"vous">>) : r \in described}
    IN  titled \cup {With(r, "language_codes", c) : r \in titled, c \in {{"fr"}, {"de"}}}

LangInit ==
    /\ g_row \in LangRows
    /\ g_french = FALSE
    /\ g_allowed = FALSE
    /\ g_stage = "args"
    /\ ExtraQuiet
    /\ RunQuiet
    /\ MergeQuiet
    /\ WithinQuiet
    /\ RaceQuiet
    /\ LoadQuiet
    /\ LinksQuiet

\* is_french_job(row) and _is_allowed_language(row.get("title"), row.get("description"))
LangCall ==
    /\ g_stage = "args"
    /\ g_french' = is_french_job(g_row)
    /\ g_allowed' = _is_allowed_language(g_row)
    /\ g_stage' = "returned"
    /\ UNCHANGED <<g_row, mergeVars, withinVars, raceVars, loadVars, linkVars, extraVars, runVars>>

SpecLang == LangInit /\ [][LangCall]_vars


(***************************************************************************)
(* SpecResolve: the row ge's main() builds for one url from the detail     *)
(* page, the listing card and the RSS item.  An optional value is <<>>     *)
(* (None) or <<v>>; a text is a sequence of characters.                    *)
(***************************************************************************)
None == <<>>
Some(v) == <<v>>
Opt(S) == {None} \cup {Some(v) : v \in S}

\* re.sub(r"\s+", " ", value): a run of blanks becomes one blank
RECURSIVE CollapseBlanks(_)
CollapseBlanks(t) ==
    IF Len(t) < 2 THEN t
    ELSE IF t[1] = " " /\ t[2] = " " THEN CollapseBlanks(Tail(t))
    ELSE <<t[1]>> \o CollapseBlanks(Tail(t))

\* _clean_text(value, limit): None for None, "" and blank text, else the
\* text with blanks collapsed, stripped and cut at limit
_clean_text(value, limit) ==
    IF value = None \/ value[1] = <<>> THEN None
    ELSE LET t == Strip(CollapseBlanks(value[1]))
         IN  IF t = <<>> THEN None
             ELSE Some(SubSeq(t, 1, IF Len(t) < limit THEN Len(t) ELSE limit))

\* bool(x) of an optional text or date
Truthy(x) == x # None /\ x[1] # <<>>

\* mutant of PyOr: the right operand wins when it is truthy
PyOrRight(a, b) == IF Truthy(b) THEN b ELSE a

\* a or b
PyOr(a, b) == IF Truthy(a) THEN a ELSE b

\* _parse_fr_date / parsedate_to_datetime(...).date().isoformat(): the ISO
\* text of the day, None for no text and for a text that does not parse
ParsedDate(raw) == IF raw = None \/ Len(raw[1]) # 1 THEN None ELSE raw

\* fetch_detail: title from the h1 if there is one, posting_date from the
\* first date pattern that matches
DetailOf(html) ==
    [title |-> IF html.h1 = None THEN None ELSE _clean_text(html.h1, 240),
     posting_date |-> ParsedDate(html.date)]

\* _parse_li_card: title = _clean_text(link text) or "", returned as title or None
CardOf(link) ==
    LET title == IF link = None THEN Some(<<>>)
                 ELSE PyOr(_clean_text(link, 240), Some(<<>>))
    IN  [title |-> PyOr(title, None)]

\* fetch_rss_map: the entry stored for an item
RssEntryOf(item) ==
    [title |-> _clean_text(Some(Strip(item.title)), 240),
     posting_date |-> IF item.pubDate = <<>> THEN None
                      ELSE ParsedDate(Some(item.pubDate))]

\* rss = rss_map.get(url, {}); rss.get(k)
RssGet(rss, k) == IF rss = None THEN None ELSE RssEntryOf(rss[1])[k]

\* a dict with the keys whose value is not None
RowOf(title, posting_date) ==
    LET base == [url |-> <<"a">>, source |-> "ge"]
        titled == IF title = None THEN base ELSE With(base, "title", title[1])
    IN  IF posting_date = None THEN titled
        ELSE With(titled, "posting_date", posting_date[1])

\* the row main() builds in its detail loop
BuildRow(html, link, rss) ==
    LET detail == DetailOf(html)
        item == CardOf(link)
    IN  RowOf(PyOr(PyOr(detail.title, item.title), RssGet(rss, "title")),
              PyOr(detail.posting_date, RssGet(rss, "posting_date")))

\* texts a page, a card or a feed can show: none, blanks, a padded word
ShownTexts(w) == {<<>>, <<" ">>, <<" ", w, " ", " ", w>>}

\* date texts: day 0, a day long before, a text that does not parse
ShownDates == {<<0>>, <<0 - 5>>, <<0, 0>>}

DetailPages == [h1 : Opt(ShownTexts("d")), date : Opt(ShownDates)]
CardLinks == Opt(ShownTexts("c"))
RssItems == Opt([title : ShownTexts("r"), pubDate : {<<>>} \cup ShownDates])

ResolveInit ==
    /\ f_detail \in DetailPages
    /\ f_item \in CardLinks
    /\ f_rss \in RssItems
    /\ f_max_days \in {<<>>, <<1>>}
    /\ f_row = <<>>
    /\ f_kept = FALSE
    /\ f_stage = "args"
    /\ \E d \in 0..MaxToday : RunQuietOn(d)
    /\ MergeQuiet
    /\ WithinQuiet
    /\ RaceQuiet
    /\ LoadQuiet
    /\ LinksQuiet
    /\ LangQuiet
    /\ PipeQuiet

\* one pass of the detail loop whose fetch_detail succeeded
ResolveBuild ==
    /\ f_stage = "args"
    /\ LET row == BuildRow(f_detail, f_item, f_rss)
       IN  /\ f_row' = <<row>>
           /\ f_kept' = within_days(row, f_max_days)
    /\ f_stage' = "built"
    /\ UNCHANGED <<f_detail, f_item, f_rss, f_max_days, mergeVars, withinVars, raceVars,
                   loadVars, linkVars, langVars, pipeVars, runVars>>

SpecResolve == ResolveInit /\ [][ResolveBuild]_vars


(***************************************************************************)
(* SpecPipe: professions_pipeline.main(), run up to MaxPipeRuns times on   *)
(* one file (input = output).  A text is a sequence of tokens; a row that  *)
(* is not a dict is the row [notdict |-> TRUE].                            *)
(***************************************************************************)
IsDict(row) == "notdict" \notin DOMAIN row

\* str(row.get(k) or "").strip()
TextField(row, k) == IF k \in DOMAIN row THEN Strip(row[k]) ELSE <<>>

\* has_prof (a professions text; lists are not written by the pipeline)
HasProf(row) == TextField(row, "professions") # <<>>

\* has_err
HasErr(row) == TextField(row, "professions_error") # <<>>

\* mutant of Skips: only rows that are not dicts are passed over
SkipsOnlyNonDicts(a, row) == ~IsDict(row)

\* the loop passes over the row: it is no dict, or (without --force-all) it has
\* professions, or it has an error and --retry-errors is not given
Skips(a, row) ==
    \/ ~IsDict(row)
    \/ ~a.force_all /\ HasProf(row)
    \/ ~a.force_all /\ HasErr(row) /\ ~a.retry_errors

\* not title and not description
NoText(row) == TextField(row, "title") = <<>> /\ TextField(row, "description") = <<>>

\* classify_professions, after the request: the strings of values, cleaned,
\* without repeats, at most 5
RECURSIVE CleanNames(_, _)
CleanNames(values, out) ==
    IF values = <<>> \/ Len(out) >= 5 THEN out
    ELSE LET t == Head(values)
         IN  CleanNames(Tail(values),
                        IF t # " " /\ \A i \in 1..Len(out) : out[i] # t
                        THEN Append(out, t) ELSE out)

\* what the model answers: a JSON object whose "professions" is no list, or a
\* list of names (" " is a blank name)
Answers ==
    {[list |-> FALSE, values |-> <<>>]}
    \cup {[list |-> TRUE, values |-> v] : v \in SeqsUpTo({"p", "q", " "}, MaxNames)}

Classified(answer) == IF answer.list THEN CleanNames(answer.values, <<>>) ELSE <<>>

\* ", ".join(profs)
RECURSIVE JoinComma(_)
JoinComma(profs) ==
    IF profs = <<>> THEN <<>>
    ELSE IF Len(profs) = 1 THEN profs
    ELSE <<Head(profs), ", ">> \o JoinComma(Tail(profs))

\* row.pop(k, None)
Without(row, k) == [f \in DOMAIN row \ {k} |-> row[f]]

\* rows of the input file: a jobroom row with or without title, with or
\* without professions and professions_error, and an item that is no dict
PipeRows ==
    LET titled == {[url |-> <<"a">>], [url |-> <<"a">>, title |-> <<"t">>]}
        prof == titled \cup {With(r, "professions", v) : r \in titled, v \in {<<>>, <<"p">>}}
    IN  prof \cup {With(r, "professions_error", <<"E">>) : r \in prof}
             \cup {[notdict |-> TRUE]}

PipeArgs == [force_all : BOOLEAN, retry_errors : BOOLEAN, checkpoint_every : {0, 1}]

PipeInit ==
    /\ p_file \in SeqsUpTo(PipeRows, MaxPayload)
    /\ p_args = <<>> /\ p_payload = <<>> /\ p_i = 0 /\ p_pc = "idle"
    /\ p_run = 0 /\ p_did = <<>> /\ p_prev = <<>> /\ p_start = <<>> /\ p_writes = 0
    /\ RunQuiet
    /\ MergeQuiet
    /\ WithinQuiet
    /\ RaceQuiet
    /\ LoadQuiet
    /\ LinksQuiet
    /\ LangQuiet
    /\ ResolveQuiet

PipeFrame == UNCHANGED <<mergeVars, withinVars, raceVars, loadVars, linkVars, langVars,
                         resolveVars, runVars>>

\* main() up to the loop: the command line is read and the file loaded
PipeStart ==
    /\ p_pc \in {"idle", "done"}
    /\ p_run < MaxPipeRuns
    /\ p_args' \in PipeArgs
    /\ p_payload' = p_file
    /\ p_start' = p_file
    /\ p_i' = 1
    /\ p_pc' = "loop"
    /\ p_run' = p_run + 1
    /\ p_prev' = p_did
    /\ p_did' = [k \in 1..Len(p_file) |-> ""]
    /\ p_writes' = 0
    /\ UNCHANGED p_file
    /\ PipeFrame

\* the checkpoint after a row that was sent to the classifier
Checkpoint(payload) ==
    IF p_args.checkpoint_every > 0 /\ p_i % p_args.checkpoint_every = 0
    THEN p_file' = payload /\ p_writes' = p_writes + 1
    ELSE UNCHANGED <<p_file, p_writes>>

\* the row is passed over
PipeSkip ==
    /\ p_pc = "loop" /\ p_i <= Len(p_payload)
    /\ Skips(p_args, p_payload[p_i])
    /\ p_did' = [p_did EXCEPT ![p_i] = "skipped"]
    /\ p_i' = p_i + 1
    /\ UNCHANGED <<p_args, p_file, p_payload, p_pc, p_run, p_prev, p_start, p_writes>>
    /\ PipeFrame

\* the row has neither title nor description: professions = "", no request
PipeBlank ==
    /\ p_pc = "loop" /\ p_i <= Len(p_payload)
    /\ ~Skips(p_args, p_payload[p_i])
    /\ NoText(p_payload[p_i])
    /\ p_payload' = [p_payload EXCEPT ![p_i] = With(@, "professions", <<>>)]
    /\ p_did' = [p_did EXCEPT ![p_i] = "blank"]
    /\ p_i' = p_i + 1
    /\ UNCHANGED <<p_args, p_file, p_pc, p_run, p_prev, p_start, p_writes>>
    /\ PipeFrame

\* mutant of PipeClassifyFail: the exception ends the run, nothing is written
PipeClassifyFailEndsRun ==
    /\ p_pc = "loop" /\ p_i <= Len(p_payload)
    /\ ~Skips(p_args, p_payload[p_i])
    /\ ~NoText(p_payload[p_i])
    /\ p_did' = [p_did EXCEPT ![p_i] = "failed"]
    /\ p_pc' = "done"
    /\ UNCHANGED <<p_args, p_file, p_payload, p_i, p_run, p_prev, p_start, p_writes>>
    /\ PipeFrame

\* the request or the parsing of its answer raises
PipeClassifyFail ==
    /\ p_pc = "loop" /\ p_i <= Len(p_payload)
    /\ ~Skips(p_args, p_payload[p_i])
    /\ ~NoText(p_payload[p_i])
    /\ LET row == With(With(p_payload[p_i], "professions", <<>>),
                       "professions_error", <<"E">>)
           payload == [p_payload EXCEPT ![p_i] = row]
       IN  /\ p_payload' = payload
           /\ Checkpoint(payload)
    /\ p_did' = [p_did EXCEPT ![p_i] = "failed"]
    /\ p_i' = p_i + 1
    /\ UNCHANGED <<p_args, p_pc, p_run, p_prev, p_start>>
    /\ PipeFrame

\* the request is answered
PipeClassifyOk ==
    /\ p_pc = "loop" /\ p_i <= Len(p_payload)
    /\ ~Skips(p_args, p_payload[p_i])
    /\ ~NoText(p_payload[p_i])
    /\ \E answer \in Answers :
           LET profs == Classified(answer)
               row == Without(With(p_payload[p_i], "professions", JoinComma(profs)),
                              "professions_error")
               payload == [p_payload EXCEPT ![p_i] = row]
           IN  /\ p_payload' = payload
               /\ Checkpoint(payload)
               /\ p_did' = [p_did EXCEPT ![p_i] = IF profs = <<>> THEN "empty" ELSE "named"]
    /\ p_i' = p_i + 1
    /\ UNCHANGED <<p_args, p_pc, p_run, p_prev, p_start>>
    /\ PipeFrame

\* after the loop: the output file is written
PipeFinish ==
    /\ p_pc = "loop" /\ p_i > Len(p_payload)
    /\ p_file' = p_payload
    /\ p_writes' = p_writes + 1
    /\ p_pc' = "done"
    /\ UNCHANGED <<p_args, p_payload, p_i, p_run, p_did, p_prev, p_start>>
    /\ PipeFrame

PipeNext ==
    \/ PipeStart
    \/ PipeSkip
    \/ PipeBlank
    \/ PipeClassifyFail
    \/ PipeClassifyOk
    \/ PipeFinish

SpecPipe == PipeInit /\ [][PipeNext]_vars


(***************************************************************************)
(* Claims about merge_jobs_by_url (checked under SpecMerge and SpecAll)     *)
(***************************************************************************)
\* the url of a row as the claims see it: whitespace-stripped text, "" when absent
StrippedUrl(row) == IF "url" \in DOMAIN row THEN RStrip(LStrip(row.url)) ELSE <<>>

\* row i of current is the one the map holds for its url when the fresh loop starts
IsMapEntry(i) ==
    /\ ~MergeSkips(m_scraper, m_filter_lang, m_current[i])
    /\ \A j \in (i + 1)..Len(m_current) :
           \/ MergeSkips(m_scraper, m_filter_lang, m_current[j])
           \/ StrippedUrl(m_current[j]) # StrippedUrl(m_current[i])

\* the url has an integer id in the map when the fresh loop starts
MapHasIntId(url) ==
    \E i \in 1..Len(m_current) :
        IsMapEntry(i) /\ StrippedUrl(m_current[i]) = url /\ HasIntId(m_current[i])

\* fresh row j is merged (not left out)
FreshMerged(j) == ~MergeSkips(m_scraper, m_filter_lang, m_fresh[j])

\* fresh row j is the first merged fresh row of a url without an integer id in the map
IsNewAt(j) ==
    /\ FreshMerged(j)
    /\ ~MapHasIntId(StrippedUrl(m_fresh[j]))
    /\ \A k \in 1..(j - 1) :
           ~(FreshMerged(k) /\ StrippedUrl(m_fresh[k]) = StrippedUrl(m_fresh[j]))

\* fresh row j is the last merged fresh row of its url
IsLastOfUrl(j) ==
    /\ FreshMerged(j)
    /\ \A k \in (j + 1)..Len(m_fresh) :
           ~(FreshMerged(k) /\ StrippedUrl(m_fresh[k]) = StrippedUrl(m_fresh[j]))

RowsOfUrl(rows, url) == {i \in 1..Len(rows) : StrippedUrl(rows[i]) = url}

\* the fields of a row that merge does not set
Payload(row) == [k \in DOMAIN row \ {"id", "source"} |-> row[k]]

\* C2: the list merge_jobs_by_url returns holds no two rows with the same
\* whitespace-stripped url, whatever current and fresh are, and so does every
\* list a run merges and every dataset file a run writes.
C2_NoDuplicateUrl ==
    /\ m_stage # "args" =>
           \A i, j \in 1..Len(m_out) :
               StrippedUrl(m_out[i]) = StrippedUrl(m_out[j]) => i = j
    /\ \A i, j \in 1..Len(merged) :
           StrippedUrl(merged[i]) = StrippedUrl(merged[j]) => i = j
    /\ \A i, j \in 1..Len(dataset) :
           StrippedUrl(dataset[i]) = StrippedUrl(dataset[j]) => i = j

\* C2 witness: a merge whose arguments name one url twice, once padded with
\* whitespace, and whose result holds that url.
C2_Witness ==
    /\ m_stage = "merged"
    /\ \E i \in 1..Len(m_current), j \in 1..Len(m_fresh) :
           /\ "url" \in DOMAIN m_current[i] /\ "url" \in DOMAIN m_fresh[j]
           /\ StrippedUrl(m_current[i]) = StrippedUrl(m_fresh[j])
           /\ m_current[i].url # m_fresh[j].url
           /\ RowsOfUrl(m_out, StrippedUrl(m_fresh[j])) # {}

\* C4: merging the same fresh batch into the merged list again returns the
\* same list: same rows, same ids, same order.
C4_Idempotent ==
    m_stage = "remerged" => m_again = m_out

\* C4 witness: a second merge of a batch that got a new id and carried an old one.
C4_Witness ==
    /\ m_stage = "remerged"
    /\ \E j \in 1..Len(m_fresh) : IsNewAt(j)
    /\ \E j \in 1..Len(m_fresh) : FreshMerged(j) /\ MapHasIntId(StrippedUrl(m_fresh[j]))
    /\ Len(m_out) >= 2

\* C5: the merged fresh rows whose url has no integer id in the map get the ids
\* (largest id of current) + 1, + 2, ... in the order of the fresh batch, and
\* the returned row of that url carries that id; current = [] and
\* fresh = [a, b] give a = 1 and b = 2.
C5_NewIdsInFreshOrder ==
    m_stage = "merged" =>
        \A j \in 1..Len(m_fresh) :
            IsNewAt(j) =>
                LET n == InitialMaxId(m_current)
                         + Cardinality({k \in 1..j : IsNewAt(k)})
                IN  /\ HasIntId(m_fresh[j]) /\ m_fresh[j].id = n
                    /\ \A i \in 1..Len(m_current) : HasIntId(m_current[i]) => m_current[i].id < n
                    /\ \A i \in RowsOfUrl(m_out, StrippedUrl(m_fresh[j])) : m_out[i].id = n

\* C5 witness: two new urls merged into a list whose largest id is 3: they get 4 and 5.
C5_Witness ==
    /\ m_stage = "merged"
    /\ InitialMaxId(m_current) = 3
    /\ Len(m_fresh) = 2 /\ IsNewAt(1) /\ IsNewAt(2)
    /\ m_fresh[1].id = 4 /\ m_fresh[2].id = 5

\* C6: a merged fresh row whose url has an integer id in the map yields exactly
\* one returned row for that url, with the map's id and the fields of the
\* (last) fresh row of that url.
C6_UpdateKeepsId ==
    m_stage = "merged" =>
        \A j \in 1..Len(m_fresh) :
            (IsLastOfUrl(j) /\ MapHasIntId(StrippedUrl(m_fresh[j]))) =>
                LET url == StrippedUrl(m_fresh[j])
                    rows == RowsOfUrl(m_out, url)
                IN  /\ Cardinality(rows) = 1
                    /\ \A r \in rows :
                           /\ Payload(m_out[r]) = Payload(m_fresh[j])
                           /\ \E i \in 1..Len(m_current) :
                                  /\ IsMapEntry(i) /\ StrippedUrl(m_current[i]) = url
                                  /\ m_out[r].id = m_current[i].id

\* C6 witness: current holds url a with id 3 and title old, fresh holds a with
\* title new: the result holds a with id 3 and title new.
C6_Witness ==
    /\ m_stage = "merged"
    /\ \E i \in 1..Len(m_current), j \in 1..Len(m_fresh), r \in 1..Len(m_out) :
           /\ IsMapEntry(i) /\ HasIntId(m_current[i]) /\ m_current[i].id = 3
           /\ m_current[i].title = <<"old">>
           /\ FreshMerged(j) /\ StrippedUrl(m_fresh[j]) = StrippedUrl(m_current[i])
           /\ StrippedUrl(m_out[r]) = StrippedUrl(m_current[i])
           /\ m_out[r].id = 3 /\ m_out[r].title = <<"new">>


(***************************************************************************)
(* Claims about the runs (checked under Spec)                              *)
(***************************************************************************)
UrlsOf(rows) == {StrippedUrl(rows[i]) : i \in 1..Len(rows)}

\* C1: every id a run writes for a url the loaded dataset did not hold is
\* greater than every id an earlier run wrote to that dataset file, so no id
\* passes from one url to another.
C1_NewIdsAboveEarlierIds ==
    pc = "save_json" =>
        LET out == Written(scraper, merged, args)
        IN  \A i \in 1..Len(out) :
                StrippedUrl(out[i]) \notin UrlsOf(existing_jobs) => out[i].id > h_max_id

\* C3: every row of the dataset file has an integer id >= 1 and no two rows of
\* the file have the same id, after any number of runs from the empty dataset.
C3_IdsPositiveAndUnique ==
    \A i \in 1..Len(dataset) :
        /\ HasIntId(dataset[i]) /\ dataset[i].id >= 1
        /\ \A j \in 1..Len(dataset) : dataset[i].id = dataset[j].id => i = j

\* C3 witness: a dataset file of two rows fetched on different days, so by two runs.
C3_Witness ==
    /\ pc = "idle" /\ args.days = 1 /\ Len(dataset) = 2
    /\ "posting_date" \in DOMAIN dataset[1] /\ "posting_date" \in DOMAIN dataset[2]
    /\ dataset[1].posting_date # dataset[2].posting_date

\* C7: the seen_urls a run writes hold every url of the seen_urls the run
\* before it wrote, also when the dataset it writes is the shorter one.
C7_SeenNeverShrinks == [][state_seen \subseteq state_seen']_vars

\* C7 witness: a second or later run has written a dataset shorter than the one
\* it loaded, and seen_urls still holds urls.
C7_Witness ==
    /\ pc = "idle" /\ runs >= 2 /\ h_shrunk
    /\ state_seen # {}
    /\ \E u \in state_seen : u \notin UrlsOf(dataset)

\* C8: a run fetches the detail of (jobroom: adds to the fresh batch) no url
\* of the loaded dataset or the loaded seen_urls, and none that an earlier run
\* found on a listing page.
C8_KnownUrlsNotFetched ==
    h_fetched \cap (known_urls \cup h_discovered) = {}

\* C9: with stop_after_seen = T > 0, once T known urls in a row have been
\* scanned on a listing page, the first page included, no later link of that
\* page is collected and no further page is fetched.
C9_StopsAtKnownStreak == h_streak # "late"

\* C10: a failed fetch of a listing page, the first or a later one, does not
\* end the run: the run goes on to the details, the merge and the two writes.
C10_PageFailureKeepsRunGoing == h_fetch_failed => pc # "aborted"

\* C11: once the request for a listing page has failed in a run, that run
\* requests no further listing page; a failed page 1 is not followed by page 2.
C11_NoPageAfterFailedPage == [][h_fetch_failed => h_pages' <= h_pages]_vars

\* C12: once a listing page of a run has been fetched and held no link, that
\* run requests no further listing page: on page 1 as on later pages, and in
\* jobup also when page 1 announced a page count.
C12_NoPageAfterEmptyPage == [][h_empty_page => h_pages' <= h_pages]_vars

\* C13: an exception of fetch_detail for one url skips that url only: the run
\* does not end, every url of the detail list is attempted in turn, the rows
\* already fetched stay in the fresh batch and reach the merge, and the state
\* file is written with the urls of the whole detail list.
C13_DetailFailureSkipsOneUrl ==
    /\ h_detail_failed # {} => pc # "aborted"
    /\ (pc = "details" /\ scraper # "jobroom") =>
           /\ h_fetched = {detail_items[i] : i \in 1..(detail_idx - 1)}
           /\ UrlsOf(fresh_jobs) \cap h_detail_failed = {}
           /\ scraper = "jobup" => UrlsOf(fresh_jobs) = h_fetched \ h_detail_failed
    /\ (pc = "save_json" /\ scraper # "jobroom") =>
           /\ h_fetched = Range(detail_items)
           /\ h_fetched \subseteq state_seen
           /\ \A i \in 1..Len(fresh_jobs) :
                  ~MergeSkips(scraper, args.filter_lang, fresh_jobs[i])
                      => UrlKey(fresh_jobs[i]) \in UrlsOf(merged)

\* C13 witness: the first url of the detail list failed, the second was fetched
\* after it and its row is in the merged list; the state file is written.
C13_Witness ==
    /\ pc = "save_json" /\ Len(detail_items) = 2
    /\ detail_items[1] \in h_detail_failed
    /\ detail_items[2] \notin h_detail_failed
    /\ detail_items[2] \in UrlsOf(merged)
    /\ detail_items[1] \in state_seen

\* C14: with --max-pages M >= 1 a run requests at most M listing pages, page 1
\* included, whatever the source serves or announces.
C14_AtMostMaxPages ==
    args.max_pages > 0 => h_pages <= args.max_pages

\* C14 witness: M = 1, page 1 was full of unknown links (the source has more
\* pages) and the run has left the page loop after that one request.
C14_Witness ==
    /\ args.max_pages = 1 /\ pc = "details" /\ h_pages = 1
    /\ scraper # "jobroom"
    /\ Len(links) = MaxPageLen /\ Range(links) \cap known_urls = {}

\* C15: with --max-jobs J >= 1 a run fetches the detail of at most J urls and
\* hands at most J fresh rows to merge.
C15_AtMostMaxJobs ==
    args.max_jobs > 0 =>
        /\ Cardinality(h_fetched) <= args.max_jobs
        /\ Len(fresh_jobs) <= args.max_jobs
        /\ Len(detail_items) <= args.max_jobs

\* C15 witness: J = 1, two unknown urls were discovered, one was fetched and
\* the merge has been done.
C15_Witness ==
    /\ args.max_jobs = 1 /\ pc = "save_json"
    /\ Cardinality(Range(links) \ known_urls) = 2
    /\ Cardinality(h_fetched) = 1 /\ Len(fresh_jobs) = 1

\* C16: with a date window configured, every row of the dataset file a run
\* writes, fetched in this run or carried over from the loaded dataset, is
\* within the window on the day of the run; rows with a missing or
\* unparsable posting date are not written.
C16_WrittenRowsWithinWindow ==
    [][(pc = "save_json" /\ args.days > 0) =>
           \A i \in 1..Len(dataset') : within_days(dataset'[i], MaxDaysOf(args))]_vars

\* C17: the seen_urls a run writes are the urls of the loaded dataset and the
\* loaded seen_urls, the urls found on the listing pages of the run and the
\* urls of the merged rows, with no date or relevance filtering.
C17_SeenIsUnionOfKnownListedMerged ==
    /\ pc \in {"page1", "pages", "details"} =>
           known_urls = (UrlsOf(dataset) \cup state_seen) \ {<<>>}
    /\ pc = "save_json" =>
           /\ state_seen = known_urls \cup Range(links) \cup Range(all_page_urls)
                                       \cup (UrlsOf(merged) \ {<<>>})
           /\ h_fetched \subseteq state_seen

\* C17 witness: a url listed in this run, unknown before and not failed, has no
\* row in the merged list (outside the window or rejected as not relevant)
\* and is in the seen_urls the run wrote.
C17_Witness ==
    /\ pc = "save_json"
    /\ \E u \in Range(links) \cup Range(all_page_urls) :
           /\ u \notin known_urls /\ u \notin h_detail_failed
           /\ u \notin UrlsOf(merged)
           /\ u \in state_seen


(***************************************************************************)
(* Claims about within_days (checked under SpecWithin)                     *)
(***************************************************************************)
\* the posting_date within_days was given: <<>> for None, else <<text>>
GivenDate == IF "posting_date" \in DOMAIN w_row THEN <<w_row.posting_date>> ELSE <<>>

\* the text is an ISO date
Parsable(pd) == pd # <<>> /\ Len(pd[1]) = 1

\* C18: with a window N configured, within_days returns true iff the posting
\* date is a date and 0 <= today - posting_date <= N (a future date gives
\* false), and false for a null, empty or unparsable date; with no window
\* configured it returns true for every record.
C18_WithinDaysIsTheWindow ==
    w_stage = "returned" =>
        /\ w_max_days = <<>> => w_result = TRUE
        /\ (w_max_days # <<>> /\ ~Parsable(GivenDate)) => w_result = FALSE
        /\ (w_max_days # <<>> /\ Parsable(GivenDate)) =>
               LET age == today - GivenDate[1][1]
               IN  w_result = (0 <= age /\ age <= w_max_days[1])

\* a future-dated record was refused by a configured window
C18_Witness ==
    /\ w_stage = "returned"
    /\ w_max_days # <<>>
    /\ Parsable(GivenDate)
    /\ GivenDate[1][1] > today
    /\ w_result = FALSE


FetchedAndWritten(p) ==
    UrlsOf(r_loc[p].fresh_jobs) \cap UrlsOf(Written(scraper, r_loc[p].merged, args))

\* run p has ended and a record it fetched and wrote is not in the dataset
\* file although its url is in seen_urls
LostRecord(p) ==
    /\ r_pc[p] = "done"
    /\ \E u \in FetchedAndWritten(p) : u \notin UrlsOf(r_dataset) /\ u \in r_seen

\* C20: when the two runs execute one after the other, no record that a run
\* fetched and wrote is absent from the dataset file while its url is in
\* seen_urls; when their steps interleave, that state is reachable
\* (C20_Witness).
C20_SerialRunsLoseNoRecord ==
    r_mode = "serial" => \A p \in Procs : ~LostRecord(p)

\* both runs have ended after interleaved steps and a record one of them
\* fetched and wrote is lost
C20_Witness ==
    /\ r_mode = "concurrent"
    /\ \A p \in Procs : r_pc[p] = "done"
    /\ \E p \in Procs : LostRecord(p)


(***************************************************************************)
(* Claims about the files a run finds (checked under SpecLoad)             *)
(***************************************************************************)
\* the dataset file holds a JSON list
HoldsList(f) == f.kind = "json" /\ f.value.t = "list"

\* the state file holds a JSON object with a seen_urls list
HoldsSeenUrls(f) ==
    /\ f.kind = "json" /\ f.value.t = "dict"
    /\ "seen_urls" \in DOMAIN f.value.row
    /\ f.value.row.seen_urls.t = "list"

\* C21: a dataset file or state file that is missing, is no JSON or has not
\* the expected shape is loaded as an empty dataset / an empty state without
\* an exception, the entries of the list that are no objects are left out,
\* and the run goes on as on the loaded values: it aborts only where a run on
\* sound files does (an uncaught listing failure of talent), and a run that
\* ends has written a dataset of rows with ids whose urls are in seen_urls.
C21_BadFilesLoadAsEmpty ==
    l_stage = "loaded" =>
        /\ pc \in {"page1", "pages", "details", "save_json"} =>
               /\ ~HoldsList(l_dataset_file) => existing_jobs = <<>>
               /\ HoldsList(l_dataset_file) =>
                      LET items == l_dataset_file.value.items
                          objs == {i \in 1..Len(items) : items[i].t = "dict"}
                      IN  /\ Len(existing_jobs) = Cardinality(objs)
                          /\ Range(existing_jobs) = {items[i].row : i \in objs}
               /\ ~HoldsSeenUrls(l_state_file) =>
                      known_urls = UrlsOf(existing_jobs) \ {<<>>}
               /\ HoldsSeenUrls(l_state_file) =>
                      known_urls = (UrlsOf(existing_jobs) \cup
                                    {Strip(u) : u \in Range(l_state_file.value.row.seen_urls.items)})
                                   \ {<<>>}
        /\ pc = "aborted" => (scraper = "talent" /\ h_fetch_failed)
        /\ pc # "off"
        /\ pc = "idle" =>
               /\ \A i \in 1..Len(dataset) : HasIntId(dataset[i])
               /\ UrlsOf(dataset) \subseteq state_seen

\* a run that found a list with entries that are no objects and a state file
\* that is no JSON has ended and written the stored and a new record
C21_Witness ==
    /\ l_stage = "loaded"
    /\ pc = "idle"
    /\ HoldsList(l_dataset_file) /\ Len(l_dataset_file.value.items) = 3
    /\ l_state_file = NoJson
    /\ Len(dataset) = 2
    /\ state_seen = {<<"a">>, <<"b">>}


(***************************************************************************)
(* Further claims about merge_jobs_by_url (checked under SpecMerge)        *)
(***************************************************************************)
\* C22: merge loses no entry: the urls of merge(E, F) are the non-empty urls
\* of E together with those of F, in every scraper's merge, talent's with its
\* language filter included.
C22_MergeKeepsEveryUrl ==
    m_stage = "merged" =>
        UrlsOf(m_out) = (UrlsOf(m_current) \cup UrlsOf(m_fresh)) \ {<<>>}


(***************************************************************************)
(* Claims about listing links (checked under SpecLinks)                    *)
(***************************************************************************)
\* the detail page a url points to: the url without its query string
PageOf(u) == CutAt(CutAt(u, "#"), "?")

\* C23: two links that point to the same detail page and differ only in
\* their query string are one record identity: the discovered list has one
\* entry per detail page, a link whose page was seen before in either form
\* is not fetched, and the merged dataset has one record per detail page.
C23_OneIdentityPerDetailPage ==
    /\ k_stage \in {"links", "merged"} =>
           \A i, j \in 1..Len(k_links) : PageOf(k_links[i]) = PageOf(k_links[j]) => i = j
    /\ k_stage = "merged" =>
           /\ \A i \in 1..Len(k_fresh) :
                  \A v \in k_known : PageOf(UrlKey(k_fresh[i])) # PageOf(v)
           /\ \A i, j \in 1..Len(k_merged) :
                  PageOf(UrlKey(k_merged[i])) = PageOf(UrlKey(k_merged[j])) => i = j


(***************************************************************************)
(* Claims about the relevance filters (checked under SpecLang)             *)
(***************************************************************************)
\* the number of hint words of a language among the words of the row
Overlap(row, hints) ==
    Cardinality((Words(row, "title") \cup Words(row, "description")) \cap hints)

\* the French overlap is at least 2 and the largest of the four
FrenchDominant(row, fr, en, de, it) ==
    /\ Overlap(row, fr) >= 2
    /\ Overlap(row, fr) >= Overlap(row, en)
    /\ Overlap(row, fr) >= Overlap(row, de)
    /\ Overlap(row, fr) >= Overlap(row, it)

\* C24: with French as target language, is_french_job and
\* _is_allowed_language accept a record iff a language tag of the source is
\* "fr" (jobroom rows carry one) or the French hint overlap is >= 2 and the
\* largest among fr, en, de and it; they return for every title and
\* description, None included.
C24_AcceptsTaggedOrFrenchDominant ==
    g_stage = "returned" =>
        /\ g_french = (\/ ("language_codes" \in DOMAIN g_row /\ "fr" \in g_row.language_codes)
                       \/ FrenchDominant(g_row, JOBROOM_FR_HINTS, JOBROOM_EN_HINTS,
                                         JOBROOM_DE_HINTS, JOBROOM_IT_HINTS))
        /\ g_allowed = FrenchDominant(g_row, TALENT_FR_HINTS, TALENT_EN_HINTS,
                                      TALENT_DE_HINTS, TALENT_IT_HINTS)


(***************************************************************************)
(* Further claims about the page loop (checked under Spec)                 *)
(***************************************************************************)
\* C25: in jobroom, once the API has reported a total and a page with
\* 0-based index p such that (p + 1) * page size >= total has been requested,
\* no further page is requested in the run.
C25_NoPageBeyondTotal ==
    [][(/\ scraper = "jobroom"
        /\ total_api_known # <<>>
        /\ \E p \in 0..(h_pages - 1) : (p + 1) * PageSize >= total_api_known[1])
           => h_pages' <= h_pages]_vars

\* a jobroom run without any limit left the loop after a full page of unknown
\* urls because the total was reached
C25_Witness ==
    /\ scraper = "jobroom"
    /\ pc = "details"
    /\ args.max_pages = 0 /\ args.max_jobs = 0
    /\ total_api_known # <<>>
    /\ h_pages * PageSize >= total_api_known[1]
    /\ h_pages <= MaxSourcePages
    /\ ~h_fetch_failed
    /\ h_streak = "none"
    /\ Len(all_page_urls) = h_pages * PageSize

\* seq is the beginning of longer
IsPrefix(seq, longer) == Len(seq) <= Len(longer) /\ SubSeq(longer, 1, Len(seq)) = seq

\* no value twice
NoRepeat(seq) == \A i, j \in 1..Len(seq) : seq[i] = seq[j] => i = j

\* the urls of rows, in order
UrlSeq(rows) == [i \in 1..Len(rows) |-> UrlKey(rows[i])]

\* C26: the list of discovered links handed to the detail step (in jobroom
\* the fresh batch) holds each url once, at the place of its first
\* occurrence, in discovery order: every step of a run only appends to the
\* list, and the list never holds a url twice.
C26_DiscoveredOnceInOrder ==
    [][/\ (links' = <<>> \/ IsPrefix(links, links'))
       /\ NoRepeat(links')
       /\ NoRepeat(detail_items')
       /\ scraper = "jobroom" =>
              /\ (fresh_jobs' = <<>> \/ IsPrefix(UrlSeq(fresh_jobs), UrlSeq(fresh_jobs')))
              /\ NoRepeat(UrlSeq(fresh_jobs'))]_vars


(***************************************************************************)
(* Claims about the rows of a run (checked under Spec)                     *)
(***************************************************************************)
\* C27: every record of a written dataset carries a source, every record
\* freshly fetched carries the source value of its scraper, and the source
\* of a record (of a url) is the same in the dataset before and after every
\* write.
C27_SourceFixedPerScraper ==
    [][/\ \A i \in 1..Len(dataset') : "source" \in DOMAIN dataset'[i]
       /\ \A i \in 1..Len(fresh_jobs') :
              "source" \in DOMAIN fresh_jobs'[i] /\ fresh_jobs'[i].source = scraper
       /\ \A i \in 1..Len(dataset), j \in 1..Len(dataset') :
              (/\ UrlKey(dataset[i]) = UrlKey(dataset'[j])
               /\ "source" \in DOMAIN dataset[i]
               /\ "source" \in DOMAIN dataset'[j])
                  => dataset[i].source = dataset'[j].source]_vars


(***************************************************************************)
(* Claims about the known-streak counter (checked under Spec)              *)
(***************************************************************************)
\* the counter after the urls of seq have been scanned one by one from n: a
\* known url adds one, an unseen url sets it to zero
RECURSIVE StreakOver(_, _, _)
StreakOver(n, seq, known) ==
    IF seq = <<>> THEN n
    ELSE StreakOver(IF Head(seq) \in known THEN n + 1 ELSE 0, Tail(seq), known)

\* the urls a step has scanned: what it appended to links (jobroom: all_page_urls)
ScannedBy(before, after) == SubSeq(after, Len(before) + 1, Len(after))

\* C28: the known-streak counter is changed only by the scan of a link (a
\* known url adds one, an unseen url sets it to zero) and is carried over
\* page boundaries, the first one included: after every page scanned the
\* counter is the one before the page advanced over the links scanned, the
\* crawl stops when it has reached the threshold, and no other step of a run
\* changes it.
C28_StreakCountsAcrossPages ==
    [][/\ (args.stop_after_seen > 0 /\ pc \in {"page1", "pages"}
                                    /\ pc' \in {"pages", "details"}) =>
              /\ known_streak' =
                     StreakOver(known_streak,
                                IF scraper = "jobroom"
                                THEN ScannedBy(all_page_urls, all_page_urls')
                                ELSE ScannedBy(links, links'),
                                known_urls)
              /\ known_streak' >= args.stop_after_seen => pc' = "details"
       /\ (pc \in {"details", "save_json"} /\ pc' \in {"details", "save_json"}) =>
              known_streak' = known_streak]_vars


(***************************************************************************)
(* Claims about --stop-after-seen 0 (checked under SpecNoStop)             *)
(***************************************************************************)
\* the step ends the pagination of the run
PaginationEnds == pc \in {"page1", "pages"} /\ pc' = "details"

\* the reasons the pagination controller has for ending: the request failed,
\* a page held no link, the page limit (--max-pages, the ceiling of 200
\* pages, jobup's announced page count) or jobroom's --max-jobs is reached,
\* or the reported total is reached
ListedReason ==
    \/ h_fetch_failed'
    \/ h_empty_page'
    \/ scraper # "jobroom" /\ page + 1 > PageLimit(scraper, args, total_pages')
    \/ scraper = "jobroom" /\ args.max_pages > 0 /\ page + 1 >= args.max_pages
    \/ scraper = "jobroom" /\ args.max_jobs > 0 /\ Len(fresh_jobs') >= args.max_jobs
    \/ scraper = "jobroom" /\ TotalReached(total_api_known', page)

\* jobroom: the page held fewer rows than the page size
ShortPage ==
    scraper = "jobroom" /\ Len(all_page_urls') - Len(all_page_urls) < PageSize

NeedsFill(i) ==
    /\ IsMapEntry(i)
    /\ ~HasIntId(m_current[i])
    /\ \A j \in 1..Len(m_fresh) :
           ~(FreshMerged(j) /\ StrippedUrl(m_fresh[j]) = StrippedUrl(m_current[i]))

\* the position in current at which the url of row i entered the map
FirstPos(i) ==
    CHOOSE k \in 1..i :
        /\ ~MergeSkips(m_scraper, m_filter_lang, m_current[k])
        /\ StrippedUrl(m_current[k]) = StrippedUrl(m_current[i])
        /\ \A l \in 1..(k - 1) :
               \/ MergeSkips(m_scraper, m_filter_lang, m_current[l])
               \/ StrippedUrl(m_current[l]) # StrippedUrl(m_current[i])

\* the largest id once every fresh row has its id
IdsAfterFresh == InitialMaxId(m_current) + Cardinality({j \in 1..Len(m_fresh) : IsNewAt(j)})

\* the id the result holds for the url of row i of current
OutId(i) ==
    LET r == CHOOSE r \in RowsOfUrl(m_out, StrippedUrl(m_current[i])) : TRUE
    IN  m_out[r].id

EveryRowHasId ==
    /\ \A r \in 1..Len(m_out) : HasIntId(m_out[r])
    /\ \A i \in 1..Len(m_current) :
           NeedsFill(i) =>
               /\ RowsOfUrl(m_out, StrippedUrl(m_current[i])) # {}
               /\ OutId(i) > IdsAfterFresh

\* C30 as stated: every row of the result has an integer id, and the rows of
\* existing without one that no fresh row overlays get (largest id so far) + 1
\* after the fresh rows, in the order of their position in the existing list.
C30_BackfillInRecordPosition ==
    m_stage = "merged" =>
        /\ EveryRowHasId
        /\ \A i, k \in 1..Len(m_current) :
               (NeedsFill(i) /\ NeedsFill(k) /\ i < k) => OutId(i) < OutId(k)

\* C30 amended: every row of the result has an integer id, and the rows of
\* existing without one that no fresh row overlays get (largest id so far) + 1
\* after the fresh rows, in the order in which their urls first occur in the
\* existing list.
C30_BackfillInUrlOrder ==
    m_stage = "merged" =>
        /\ EveryRowHasId
        /\ \A i \in 1..Len(m_current) :
               NeedsFill(i) =>
                   OutId(i) = IdsAfterFresh
                       + Cardinality({k \in 1..Len(m_current) :
                                         NeedsFill(k) /\ FirstPos(k) <= FirstPos(i)})

\* C30 witness: existing is [a, b, a] without ids, fresh is [c]: c gets 1,
\* then a gets 2 and b gets 3.
C30_Witness ==
    /\ m_stage = "merged"
    /\ Len(m_current) = 3 /\ Len(m_fresh) = 1
    /\ NeedsFill(2) /\ NeedsFill(3) /\ FirstPos(3) = 1
    /\ IsNewAt(1) /\ m_fresh[1].id = 1
    /\ OutId(3) = 2 /\ OutId(2) = 3

(***************************************************************************)
(* Claims about the order of the merged list (checked under SpecAll)       *)
(***************************************************************************)
\* the integer ids of the rows are pairwise different
DistinctIds(rows) ==
    \A i, j \in 1..Len(rows) :
        (HasIntId(rows[i]) /\ HasIntId(rows[j]) /\ rows[i].id = rows[j].id) => i = j

StrictlyDescending(rows) ==
    \A i \in 1..(Len(rows) - 1) : rows[i].id > rows[i + 1].id

RECURSIVE FirstNonNull(_)
FirstNonNull(vals) ==
    IF vals = <<>> THEN None
    ELSE IF Head(vals) # None THEN Head(vals) ELSE FirstNonNull(Tail(vals))

\* row.get(k) as an optional value
Got(row, k) == IF k \in DOMAIN row THEN Some(row[k]) ELSE None

ResolvedTitle ==
    FirstNonNull(<<DetailOf(f_detail).title, CardOf(f_item).title, RssGet(f_rss, "title")>>)

ResolvedDate ==
    FirstNonNull(<<DetailOf(f_detail).posting_date, RssGet(f_rss, "posting_date")>>)

\* the window predicate on an optional date: None is outside every window
InWindow(d, max_days) ==
    \/ max_days = <<>>
    \/ d # None /\ 0 <= today - d[1][1] /\ today - d[1][1] <= max_days[1]

\* C32: in ge the title of a fresh row is the first non-null of detail page,
\* listing card and RSS entry of the url, its posting_date the first non-null
\* of detail page and RSS entry, else null, and the row is kept exactly when
\* the resolved posting_date is inside the window.
C32_FirstNonNullWins ==
    f_stage = "built" =>
        /\ Got(f_row[1], "title") = ResolvedTitle
        /\ Got(f_row[1], "posting_date") = ResolvedDate
        /\ f_kept = InWindow(ResolvedDate, f_max_days)

\* C32 witness: the detail page has a blank h1 and an old date, the card has a
\* title, the feed has a title and today's date: the row takes the card's
\* title and the detail page's date, and is left out.
C32_Witness ==
    /\ f_stage = "built"
    /\ f_detail = [h1 |-> Some(<<" ">>), date |-> Some(<<0 - 5>>)]
    /\ f_item = Some(<<" ", "c", " ", " ", "c">>)
    /\ f_rss # None /\ RssGet(f_rss, "title") # None
    /\ RssGet(f_rss, "posting_date") = Some(<<0>>)
    /\ f_max_days = <<1>> /\ today = 0
    /\ f_row[1].title = <<"c", " ", "c">>
    /\ f_row[1].posting_date = <<0 - 5>>
    /\ ~f_kept

(***************************************************************************)
(* Claims about the professions pipeline (checked under SpecPipe)          *)
(***************************************************************************)
\* what the run did with a row for which it called the classifier
Requested == {"named", "empty", "failed"}

\* row k was reached by the loop of this run
Reached(k) == p_did[k] # ""

\* without --force-all a row with professions is passed over and left as it
\* was, and so is a row with an error unless --retry-errors is given
SkipRules ==
    p_run >= 1 =>
        \A k \in 1..Len(p_did) :
            (/\ Reached(k)
             /\ ~p_args.force_all
             /\ \/ HasProf(p_start[k])
                \/ HasErr(p_start[k]) /\ ~p_args.retry_errors)
            => (p_did[k] = "skipped" /\ p_payload[k] = p_start[k])

\* a second run without --force-all and --retry-errors sends no row whose
\* outcome in the first run was one of done
NoSecondRequest(done) ==
    (p_run = 2 /\ ~p_args.force_all /\ ~p_args.retry_errors) =>
        \A k \in 1..Len(p_did) : p_prev[k] \in done => p_did[k] \notin Requested

\* C33 as stated: the skip rules hold, hence a second run over the output of
\* a first one issues no classification request for any record the first run
\* classified or marked as failed.
C33_SecondRunSendsNothingAgain ==
    SkipRules /\ NoSecondRequest({"named", "empty", "failed"})

\* C33 amended: the skip rules hold, hence a second run without --force-all
\* and --retry-errors issues no classification request for any record to
\* which the first run gave non-empty professions or which it marked as
\* failed (a record whose classification gave no profession is sent again).
C33_SecondRunSkipsNamedAndFailed ==
    SkipRules /\ NoSecondRequest({"named", "failed"})

\* C33 witness: the first run named the professions of one row and failed on
\* the other; the second run, without flags, passed over both.
C33_Witness ==
    /\ p_run = 2 /\ p_pc = "done"
    /\ ~p_args.force_all /\ ~p_args.retry_errors
    /\ p_prev = <<"named", "failed">>
    /\ p_did = <<"skipped", "skipped">>
    /\ p_file = p_start

\* the fields of a row the pipeline does not set
OtherFields(row) == [k \in DOMAIN row \ {"professions", "professions_error"} |-> row[k]]

\* C34: a classifier failure sets professions to "" and professions_error on
\* the record it was called for and changes nothing else; the loop goes on
\* to every later record, records not sent keep all their fields, records
\* sent keep their other fields, the output file is written at the end, and
\* a successful classification leaves no professions_error on its record.
C34_FailureTouchesOneRecord ==
    p_run >= 1 =>
        /\ Len(p_payload) = Len(p_start)
        /\ \A k \in 1..Len(p_did) :
               /\ p_did[k] = "failed" =>
                      /\ "professions" \in DOMAIN p_payload[k]
                      /\ p_payload[k].professions = <<>>
                      /\ HasErr(p_payload[k])
               /\ p_did[k] \in {"", "skipped"} => p_payload[k] = p_start[k]
               /\ p_did[k] \in Requested \cup {"blank"} =>
                      OtherFields(p_payload[k]) = OtherFields(p_start[k])
               /\ p_did[k] \in {"named", "empty"} =>
                      "professions_error" \notin DOMAIN p_payload[k]
        /\ p_pc = "done" =>
               /\ \A k \in 1..Len(p_did) : Reached(k)
               /\ p_writes >= 1
               /\ p_file = p_payload

\* C34 witness: the first run failed on the first record and named the
\* professions of the second; the second run, with --retry-errors, named the
\* professions of the first, whose professions_error is gone from the file.
C34_Witness ==
    /\ p_run = 2 /\ p_pc = "done"
    /\ p_prev = <<"failed", "named">>
    /\ p_args.retry_errors /\ ~p_args.force_all
    /\ HasErr(p_start[1])
    /\ p_did = <<"named", "skipped">>
    /\ "professions_error" \notin DOMAIN p_file[1]
    /\ p_file[2] = p_start[2]

(***************************************************************************)
(* Claims about termination (checked under SpecEndless)                    *)
(***************************************************************************)
\* C35: whatever the source serves, a run requests at most 200 listing pages
\* (ge, jobup, talent and jobroom alike) before it goes on to write its
\* state and dataset.
C35_AtMost200Pages ==
    h_pages <= MaxDynPages

(***************************************************************************)
(* Claims about urls a run found and did not fetch (checked under Spec)    *)
(***************************************************************************)
\* C36: a new url whose fetch_detail raised in a run, or which the --max-jobs
\* cut left out of the detail list of that run, is in the seen_urls that run
\* writes; no later run fetches its detail page and no dataset written
\* afterwards holds a record of it.
C36_UnfetchedUrlsAreSeenForGood ==
    /\ (pc = "save_json" /\ scraper # "jobroom") =>
           NotFetched(links, known_urls, detail_items, h_detail_failed) \subseteq state_seen
    /\ h_lost \subseteq state_seen
    /\ pc \in {"page1", "pages", "details", "save_json"} => h_lost \subseteq known_urls
    /\ h_lost \cap (h_fetched \cup Range(detail_items)) = {}
    /\ h_lost \cap (UrlsOf(fresh_jobs) \cup UrlsOf(merged) \cup UrlsOf(dataset)) = {}

\* C36 witness: one url of the first run failed and another was cut by
\* --max-jobs; a later run found a listing page with such a url on it, fetched
\* no detail for it and is about to write a dataset without it.
C36_Witness ==
    /\ pc = "save_json" /\ runs >= 2 /\ args.max_jobs > 0
    /\ Cardinality(h_lost) >= 2
    /\ \E u \in h_lost \cap Range(links) :
           /\ u \notin UrlsOf(merged)
           /\ u \in state_seen

\* C37: when a run has ended, the url of every record of the dataset file is
\* one of the seen_urls of the state file.
C37_DatasetUrlsAreSeen ==
    (pc = "idle" /\ runs >= 1) =>
        \A i \in 1..Len(dataset) :
            "url" \in DOMAIN dataset[i] /\ dataset[i].url \in state_seen

\* C37 witness: a second or later run has ended; the dataset holds records
\* of two urls, and seen_urls holds both.
C37_Witness ==
    /\ pc = "idle" /\ runs >= 2 /\ Len(dataset) >= 2
    /\ \E i, j \in 1..Len(dataset) : dataset[i].url # dataset[j].url
    /\ UrlsOf(dataset) \subseteq state_seen

(***************************************************************************)
(* Claims about carried-over records (checked under SpecCarry)             *)
(***************************************************************************)
\* row w holds every field of row e with e's value, and no field e lacks
\* other than id and source
CarriedAs(e, w) ==
    /\ DOMAIN e \subseteq DOMAIN w
    /\ \A f \in DOMAIN e : w[f] = e[f]
    /\ DOMAIN w \ DOMAIN e \subseteq {"id", "source"}

\* the rows the run is about to write whose url the loaded dataset holds
CarriedOver(out) == {i \in 1..Len(out) : StrippedUrl(out[i]) \in UrlsOf(existing_jobs)}

\* C38: every record of the loaded dataset that a run writes again is written
\* with all its fields as they were loaded (its id and fields of other tools,
\* professions among them), only a missing id or source being added; no fresh
\* record has a url of known_urls, so none takes the place of a loaded record.
C38_CarriedRecordsUnchanged ==
    /\ pc \in {"page1", "pages", "details", "save_json"} =>
           /\ UrlsOf(existing_jobs) \subseteq known_urls
           /\ UrlsOf(fresh_jobs) \cap known_urls = {}
    /\ pc = "save_json" =>
           LET out == Written(scraper, merged, args)
           IN  \A i \in CarriedOver(out) :
                   \E j \in 1..Len(existing_jobs) : CarriedAs(existing_jobs[j], out[i])

\* C38 witness: the run writes a record with professions as it was loaded, a
\* loaded record without id with an id added, and a record it fetched itself.
C38_Witness ==
    /\ pc = "save_json"
    /\ LET out == Written(scraper, merged, args)
       IN  /\ \E i \in CarriedOver(out) :
                  "professions" \in DOMAIN out[i] /\ out[i].title = <<"old">>
           /\ \E i \in CarriedOver(out) :
                  /\ out[i].url = <<"c">> /\ "id" \in DOMAIN out[i]
                  /\ \E j \in 1..Len(existing_jobs) :
                         existing_jobs[j].url = <<"c">> /\ "id" \notin DOMAIN existing_jobs[j]
           /\ \E i \in 1..Len(out) : i \notin CarriedOver(out) /\ out[i].title = <<"new">>
=============================================================================
